---------------------------- MODULE Spec2Model ----------------------------
(***************************************************************************)
(* Model of the inventory / sell-through report engine.                    *)
(*                                                                         *)
(*   src/api/sell-through.js     normaliseSku, fetchSalesBySku             *)
(*   src/api/inventory-report.js history-based report (GraphQL)            *)
(*   src/unnamed/part_002        adjustment-based report (REST)            *)
(*   src/unnamed/part_003        adjustment-based report, diagnostic build *)
(*   src/unnamed/part_004        snapshot-based report (REST)              *)
(*                                                                         *)
(* Calendar days are numbered: day n stands for the n-th "YYYY-MM-DD" of a *)
(* fixed calendar.  A JavaScript value that holds a day is either the day  *)
(* string or a Date object at 00:00:00Z of that day; the two are kept      *)
(* apart because the relational operators of the language treat them       *)
(* differently.  The server's local time zone is taken to be UTC, so that  *)
(* setDate(getDate() + 1) advances a Date by exactly one calendar day.     *)
(***************************************************************************)
EXTENDS Integers, Sequences, FiniteSets, TLC

VARIABLES
    \* ---- normaliseSku applied once and twice (sell-through.js)
    skuPc, skuRaw, skuNorm, skuTwice,
    \* ---- reconstruction and metrics of one item (parts 002, 003, 004)
    ePc,          \* position in the pipeline
    eMode,        \* which functions are applied to the inputs
    eStart, eEnd, \* the window as passed to the function (day string or Date)
    eAdj,         \* adjustments of the item: sequence of [date, delta]
    eQty,         \* snapshot quantity of the item
    eSales,       \* salesForSku: day -> units sold (days without sales absent)
    eLevels002,   \* result of reconstructDailyLevels, part_002
    eLevels003,   \* result of reconstructDailyLevels, part_003
    eInventory,   \* result of reconstructDailyInventory, part_004
    eRow,         \* result of calculateMetrics, part_004
    \* ---- metrics of a catalog (inventory-report.js, part_002)
    mVariants,    \* the catalog: sequence of [id, sku, item]
    mInventory,   \* item id -> availability as the calculator receives it
    mOrders,      \* the orders as the calculator receives them
    mOut,         \* the rows returned: sku -> metrics
    \* ---- one run of a paging fetcher against a cursor connection
    fPc,          \* "loop" while the fetcher requests pages, then "returned" or "threw"
    fFetcher,     \* which fetcher runs
    fRecords,     \* the upstream collection: the kind of each record, in order
    fFirst,       \* the page size of the connection
    fCursor,      \* the fetcher's cursor variable (0 is null)
    fRequests,    \* the cursor carried by each request sent so far
    fOut,         \* what the fetcher has accumulated
    \* ---- one run of the handler of inventory-report.js
    hPc,          \* "variants", "history", "awaiting", "orders", then "responded"
    hCatalog,     \* upstream products: the kind of each, in order
    hSales,       \* upstream orders: the kind of each, by creation time
    hHistory,     \* upstream inventory history nodes of an item
    hFirst,       \* the page size of the connections
    hCursor,      \* cursor variable of the fetcher that is running
    hVariants,    \* variants accumulated by fetchAllVariants
    hBatchAt,     \* index i of the batch loop over ids
    hInFlight,    \* item ids of the history sub-fetches sent and not settled
    hInventoryByItem,
    hOrders,      \* results accumulated by fetchOrders
    hRequests,    \* every upstream request sent, with the response it got
    hResponses,   \* every response sent to the caller
    \* ---- one run of the handler of part_002 or of part_004 (REST)
    rPc,          \* the request the handler is about to send, then "responded"
    rPart,        \* which handler runs
    rCatalog,     \* upstream products: the kind of each, in order
    rLimit,       \* the page size of the upstream
    rLinkInBody,  \* whether the JSON body of a page carries headers.link
    rStock,       \* upstream stock of item 1: its levels and its adjustments
    rSales,       \* upstream orders: the kind of each, by creation time
    rPageInfo,    \* pageInfo / cursor variable of the fetcher that is running
    rVariants,    \* variants accumulated by the catalog fetch
    rAt,          \* index of the variant whose sub-fetch is running
    rInvMapByItem,
    rOrders,      \* order lines accumulated by fetchOrders
    rOutput,      \* rows of the report
    rRequests,    \* every upstream request sent, with the response it got
    rResponses,   \* every response sent to the caller
    \* ---- sell-through.js: the sheet parser, the merger and the handler
    sPc,          \* position in the pipeline or in the handler
    sMode,        \* which functions are applied to the inputs
    sEnv,         \* which of the environment variables are set
    sText,        \* CSV text
    sRows,        \* rows of the sheet: the result of parseCsv
    sSheet,       \* sheetStats: the result of fetchSheetBySku
    sSales,       \* salesStats: the stats of fetchSalesBySku
    sItems,       \* the result of mergeSalesAndSheet
    sOrders,      \* upstream orders of the platform: the kind of each
    sCursor,      \* cursor variable of fetchSalesBySku
    sRequests,    \* every upstream request sent
    sResponses,   \* every response sent to the caller
    sTouched,     \* names of the members of Object.prototype that hold a
                  \* total_sold_24m, added by s.total_sold_24m += qty
    \* ---- the history sub-fetches of inventory-report.js, task by task
    bPc,          \* "start", "awaiting" (Promise.all pending), then "done"
    bVariants,    \* the variants returned by fetchAllVariants
    bFailing,     \* the item ids whose history request the upstream refuses
    bAt,          \* index i of the batch loop over ids
    bInFlight,    \* positions in ids of the sub-fetches sent and not settled
    bInventoryByItem,
    bWrites,      \* item id -> number of assignments to inventoryByItem[id]
    bRequests,    \* the item id of every history request sent, in order
    \* ---- one run of a link-paging fetcher (parts 002 and 004)
    lPc,          \* "loop" while the fetcher requests pages, then "returned" or "threw"
    lFetcher,     \* which fetcher runs
    lRecords,     \* the upstream collection: the kind of each record, in order
    lLimit,       \* the page size of the upstream
    lLinkInBody,  \* whether the JSON body of a page carries headers.link
    lPageInfo,    \* pageInfo / cursor variable of the fetcher (0 is null)
    lRequests,    \* the page_info carried by each request sent so far
    lOut,         \* what the fetcher has accumulated
    \* ---- the metrics of a report run, SKU by SKU
    kPc,          \* "history", "index", "skus", "level" (part_004), then "done"
    kMode,        \* which handler runs
    kVariants,    \* the catalog
    kHistory,     \* upstream inventory history of item 1 (inventory-report.js)
    kFailed,      \* whether the upstream refuses the history request of item 1
    kInventory,   \* the availability series: item id -> series
    kOrders,      \* the orders as fetched
    kIndex,       \* the sales index of the run
    kIndexAtFirst,\* the sales index when the first SKU's metrics were started
    kBuilds,      \* how many times sales were aggregated from the orders
    kAt,          \* how many SKUs have their metrics
    kOutput       \* the rows computed so far

skuVars == <<skuPc, skuRaw, skuNorm, skuTwice>>

engVars == <<ePc, eMode, eStart, eEnd, eAdj, eQty, eSales,
             eLevels002, eLevels003, eInventory, eRow,
             mVariants, mInventory, mOrders, mOut>>

fetchVars == <<fPc, fFetcher, fRecords, fFirst, fCursor, fRequests, fOut>>

repVars == <<hPc, hCatalog, hSales, hHistory, hFirst, hCursor, hVariants,
             hBatchAt, hInFlight, hInventoryByItem, hOrders, hRequests, hResponses>>

restVars == <<rPc, rPart, rCatalog, rLimit, rLinkInBody, rStock, rSales,
              rPageInfo, rVariants, rAt, rInvMapByItem, rOrders, rOutput,
              rRequests, rResponses>>

sellVars == <<sPc, sMode, sEnv, sText, sRows, sSheet, sSales, sItems,
              sOrders, sCursor, sRequests, sResponses, sTouched>>

batchVars == <<bPc, bVariants, bFailing, bAt, bInFlight, bInventoryByItem, bWrites,
               bRequests>>

linkVars == <<lPc, lFetcher, lRecords, lLimit, lLinkInBody, lPageInfo,
              lRequests, lOut>>

runVars == <<kPc, kMode, kVariants, kHistory, kFailed, kInventory, kOrders, kIndex, kIndexAtFirst,
             kBuilds, kAt, kOutput>>

vars == <<skuVars, engVars, fetchVars, repVars, restVars, sellVars,
          batchVars, linkVars, runVars>>

(***************************************************************************)
(* Bounds of the model.                                                    *)
(***************************************************************************)
MaxSkuLen == 5
MaxDay == 2        \* calendar days 1..MaxDay
MaxAdj == 2        \* adjustments of one item
MaxQty == 2        \* snapshot quantity
MaxSold == 2       \* units sold of one SKU on one day
MaxOrders == 2     \* order lines of one report
MaxRecords == 5    \* records of an upstream collection
MaxFirst == 2      \* page size of a connection
MaxProducts == 2   \* products of the catalog of one report run
MaxRequests == 9   \* requests of one run of a REST handler that are followed
MaxCsvLen == 4     \* characters of a CSV text
MaxContentLen == 3 \* characters of the content of a quoted field
MaxTableRows == 2  \* rows of a table written with one kind of line ending
MaxLinkRecords == 3 \* records of a collection served with link pointers
MaxLinkRequests == 5 \* requests of a link-paging fetcher that are followed
MaxItems == 11     \* inventory items of the catalog whose sub-fetches are followed

(***************************************************************************)
(* JavaScript strings are sequences of one-character strings; null is a    *)
(* value of its own, different from the empty string.                      *)
(***************************************************************************)
Null == [tag |-> "null", chars |-> <<>>]

Str(s) == [tag |-> "string", chars |-> s]

\* the white space and line terminators that a module string cannot hold
\* are written as their code points, one element of a string each:
\* \v, no-break space, the Unicode space separators, the line and paragraph
\* separators and the byte order mark
WideWs ==
    {"U+000B", "U+00A0", "U+1680", "U+2000", "U+2001", "U+2002", "U+2003",
     "U+2004", "U+2005", "U+2006", "U+2007", "U+2008", "U+2009", "U+200A",
     "U+2028", "U+2029", "U+202F", "U+205F", "U+3000", "U+FEFF"}

\* \s of a pattern and the white space of String.prototype.trim (and of
\* Number): WhiteSpace and LineTerminator of the language
IsWs(c) == c \in {" ", "\t", "\n", "\r", "\f"} \cup WideWs

\* !x for x a string or null
Falsy(v) == v.tag = "null" \/ v.chars = <<>>

\* String.prototype.trim
Trim(s) ==
    LET nonWs == {i \in 1..Len(s) : ~IsWs(s[i])}
    IN  IF nonWs = {} THEN <<>>
        ELSE LET first == CHOOSE i \in nonWs : \A j \in nonWs : i <= j
                 last  == CHOOSE i \in nonWs : \A j \in nonWs : j <= i
             IN  SubSeq(s, first, last)

\* the text from index i to the end matches  \s*-#+\s*$
SuffixMatches(s, i) ==
    \E h \in i..Len(s) : \E k \in (h + 1)..Len(s) :
        /\ \A j \in i..(h - 1) : IsWs(s[j])
        /\ s[h] = "-"
        /\ \A j \in (h + 1)..k : s[j] = "#"
        /\ \A j \in (k + 1)..Len(s) : IsWs(s[j])

\* s.replace(/\s*-#+\s*$/, ""): the leftmost match is removed, if there is one
StripSuffix(s) ==
    LET starts == {i \in 1..Len(s) : SuffixMatches(s, i)}
    IN  IF starts = {} THEN s
        ELSE LET first == CHOOSE i \in starts : \A j \in starts : i <= j
             IN  SubSeq(s, 1, first - 1)

normaliseSku(sku) ==
    IF Falsy(sku) THEN Null ELSE Str(StripSuffix(Trim(sku.chars)))

(***************************************************************************)
(* Days and Date objects.  DayString(n) is the string "YYYY-MM-DD" of day  *)
(* n, DateOf(n) the Date object at 00:00:00Z of day n.                     *)
(***************************************************************************)
DayString(n) == [kind |-> "string", day |-> n]

DateOf(n) == [kind |-> "Date", day |-> n]

\* new Date(x) for x a day string or a Date
NewDate(x) == DateOf(x.day)

\* d <= end for a Date d: a Date operand is compared by its time value; a day
\* string operand is converted with ToNumber, "YYYY-MM-DD" gives NaN, and every
\* comparison with NaN is false
DateLessEq(d, end) == end.kind = "Date" /\ d.day <= end.day

\* while (d <= end) { list.push(d.toISOString().slice(0, 10)); d.setDate(d.getDate() + 1) }
RECURSIVE EnumerateFrom(_, _, _)
EnumerateFrom(d, end, list) ==
    IF DateLessEq(d, end)
    THEN EnumerateFrom(DateOf(d.day + 1), end, Append(list, d.day))
    ELSE list

enumerateDays(start, end) == EnumerateFrom(NewDate(start), end, <<>>)

(***************************************************************************)
(* Objects used as maps are functions; a key that was never assigned is    *)
(* outside the domain (undefined).                                         *)
(***************************************************************************)
Range(seq) == {seq[i] : i \in 1..Len(seq)}

\* obj[k] || 0
OrZero(obj, k) == IF k \in DOMAIN obj THEN obj[k] ELSE 0

\* obj[k] = v, creating the key when it is new
Put(obj, k, v) == [x \in DOMAIN obj \cup {k} |-> IF x = k THEN v ELSE obj[x]]

(***************************************************************************)
(* An object made by {} inherits the members of Object.prototype.  Where   *)
(* the key is a SKU, a text of the upstream, the key can name one of them: *)
(* a read of such a key that the object does not own finds the inherited   *)
(* member, a function or (for __proto__) the prototype itself, and an      *)
(* assignment to __proto__ goes to the accessor of the prototype and makes *)
(* no own key.  Item ids, variant ids, days and the keys made of a day and *)
(* a SKU never name a member.  An assignment of an object to __proto__     *)
(* makes that object the prototype: the object inherits its fields from    *)
(* then on, and the members of Object.prototype through it.  The reports   *)
(* are written as JSON, which has the own keys only, and are not read by   *)
(* key; the index of the sheet is read by key in the merge, and the map    *)
(* that stands for it holds the prototype it was given under __proto__.    *)
(***************************************************************************)
ProtoKey == <<"_", "_", "p", "r", "o", "t", "o", "_", "_">>

ConstructorKey == <<"c", "o", "n", "s", "t", "r", "u", "c", "t", "o", "r">>

\* a SKU that names a field of the rows of the sheet
SkuRawKey == <<"s", "k", "u", "_", "r", "a", "w">>

ObjectPrototypeKeys ==
    {ProtoKey,
     ConstructorKey,
     <<"h", "a", "s", "O", "w", "n", "P", "r", "o", "p", "e", "r", "t", "y">>,
     <<"i", "s", "P", "r", "o", "t", "o", "t", "y", "p", "e", "O", "f">>,
     <<"p", "r", "o", "p", "e", "r", "t", "y", "I", "s", "E", "n", "u", "m", "e", "r", "a", "b", "l", "e">>,
     <<"t", "o", "L", "o", "c", "a", "l", "e", "S", "t", "r", "i", "n", "g">>,
     <<"t", "o", "S", "t", "r", "i", "n", "g">>,
     <<"v", "a", "l", "u", "e", "O", "f">>,
     <<"_", "_", "d", "e", "f", "i", "n", "e", "G", "e", "t", "t", "e", "r", "_", "_">>,
     <<"_", "_", "d", "e", "f", "i", "n", "e", "S", "e", "t", "t", "e", "r", "_", "_">>,
     <<"_", "_", "l", "o", "o", "k", "u", "p", "G", "e", "t", "t", "e", "r", "_", "_">>,
     <<"_", "_", "l", "o", "o", "k", "u", "p", "S", "e", "t", "t", "e", "r", "_", "_">>}

\* obj[k] = v with k a text of the upstream, as far as the own keys go
Assign(obj, k, v) == IF k = ProtoKey THEN obj ELSE Put(obj, k, v)

\* obj[k] = v with k a text of the upstream and v an object, for an object
\* that is read by key: under __proto__ the map holds the prototype
AssignObject(obj, k, v) == Put(obj, k, v)

\* Object.keys(obj): the own keys
Keys(obj) == DOMAIN obj \ {ProtoKey}

\* obj[k] is truthy, for an object whose own values are objects
Found(obj, k) == k \in DOMAIN obj \/ k \in ObjectPrototypeKeys

\* days.forEach((d) => (map[d] = 0))
ZeroSeries(days) == [d \in Range(days) |-> 0]

(***************************************************************************)
(* Forward accumulation, part_002: an adjustment is skipped when the slot  *)
(* of its day is falsy, that is undefined or 0.                            *)
(***************************************************************************)
RECURSIVE AccumulateLevels002(_, _, _)
AccumulateLevels002(adjustments, i, daily) ==
    IF i > Len(adjustments) THEN daily
    ELSE LET adj == adjustments[i]
         IN  IF adj.date \notin DOMAIN daily \/ daily[adj.date] = 0
             THEN AccumulateLevels002(adjustments, i + 1, daily)
             ELSE AccumulateLevels002(adjustments, i + 1,
                      [daily EXCEPT ![adj.date] = @ + adj.delta])

reconstructDailyLevels002(startDay, endDay, adjustments) ==
    LET days == enumerateDays(NewDate(startDay), NewDate(endDay))
    IN  AccumulateLevels002(adjustments, 1, ZeroSeries(days))

(***************************************************************************)
(* Forward accumulation, part_003: an adjustment is skipped only when the  *)
(* slot of its day is undefined.                                           *)
(***************************************************************************)
RECURSIVE AccumulateLevels003(_, _, _)
AccumulateLevels003(adjustments, i, map) ==
    IF i > Len(adjustments) THEN map
    ELSE LET a == adjustments[i]
         IN  IF a.date \in DOMAIN map
             THEN AccumulateLevels003(adjustments, i + 1,
                      [map EXCEPT ![a.date] = @ + a.delta])
             ELSE AccumulateLevels003(adjustments, i + 1, map)

reconstructDailyLevels003(startDay, endDay, adjustments) ==
    LET days == enumerateDays(NewDate(startDay), NewDate(endDay))
    IN  AccumulateLevels003(adjustments, 1, ZeroSeries(days))

(***************************************************************************)
(* Backward reconstruction, part_004: from the last day to the first, the  *)
(* day gets the running total and the day's sales are added afterwards.    *)
(***************************************************************************)
\* mutant: the day's sales are added before the day is assigned
RECURSIVE WalkBackwardAddFirst(_, _, _, _, _)
WalkBackwardAddFirst(days, i, running, salesForSku, inventory) ==
    IF i < 1 THEN inventory
    ELSE LET day  == days[i]
             sold == OrZero(salesForSku, day)
         IN  WalkBackwardAddFirst(days, i - 1, running + sold, salesForSku,
                                  Put(inventory, day, running + sold))

RECURSIVE WalkBackward(_, _, _, _, _)
WalkBackward(days, i, running, salesForSku, inventory) ==
    IF i < 1 THEN inventory
    ELSE LET day  == days[i]
             sold == OrZero(salesForSku, day)
         IN  WalkBackward(days, i - 1, running + sold, salesForSku,
                          Put(inventory, day, running))

reconstructDailyInventory(startDay, endDay, finalQty, salesForSku) ==
    LET days == enumerateDays(startDay, endDay)
    IN  WalkBackward(days, Len(days), finalQty, salesForSku, ZeroSeries(days))

(***************************************************************************)
(* Metrics of one SKU, part_004: one pass over the keys of the series.     *)
(***************************************************************************)
ZeroMetrics ==
    [days_in_stock |-> 0, stockout_days |-> 0,
     sold_while_in_stock |-> 0, total_sold |-> 0]

\* the four counters of a row
Counters(row) ==
    [days_in_stock |-> row.days_in_stock, stockout_days |-> row.stockout_days,
     sold_while_in_stock |-> row.sold_while_in_stock, total_sold |-> row.total_sold]

\* { sku, ...metrics }: the row of inventory-report.js and of part_004
RowOf(sku, metrics) ==
    [sku |-> sku,
     days_in_stock |-> metrics.days_in_stock, stockout_days |-> metrics.stockout_days,
     sold_while_in_stock |-> metrics.sold_while_in_stock,
     total_sold |-> metrics.total_sold]

\* the row of part_002, which also holds the daily levels of the item
Row002(sku, metrics, invDaily) ==
    [sku |-> sku,
     days_in_stock |-> metrics.days_in_stock, stockout_days |-> metrics.stockout_days,
     sold_while_in_stock |-> metrics.sold_while_in_stock,
     total_sold |-> metrics.total_sold,
     daily |-> invDaily]

\* the loop body: totalSold += sold; if (qty > 0) {...} else {...}
MetricsDay004(acc, qty, sold) ==
    IF qty > 0
    THEN [acc EXCEPT !.total_sold = @ + sold,
                     !.days_in_stock = @ + 1,
                     !.sold_while_in_stock = @ + sold]
    ELSE [acc EXCEPT !.total_sold = @ + sold,
                     !.stockout_days = @ + 1]

\* Object.keys(inventory): the keys in insertion order, which is ascending
SortedKeys(obj) ==
    LET n == Cardinality(DOMAIN obj)
    IN  [i \in 1..n |->
            CHOOSE k \in DOMAIN obj : Cardinality({j \in DOMAIN obj : j < k}) = i - 1]

RECURSIVE MetricsOverKeys004(_, _, _, _, _)
MetricsOverKeys004(keys, i, inventory, salesForSku, acc) ==
    IF i > Len(keys) THEN acc
    ELSE MetricsOverKeys004(keys, i + 1, inventory, salesForSku,
             MetricsDay004(acc, inventory[keys[i]], OrZero(salesForSku, keys[i])))

calculateMetrics004(inventory, salesForSku) ==
    MetricsOverKeys004(SortedKeys(inventory), 1, inventory, salesForSku, ZeroMetrics)

(***************************************************************************)
(* inventory-report.js, computeMetrics.  A variant is [id, sku, item], an  *)
(* order [createdAt, lineItems] with line items [variantId, quantity]      *)
(* (variantId 0 stands for null), inventoryByItem maps an item id to the   *)
(* list of [date, available] that fetchInventoryDailyForItem returned.     *)
(***************************************************************************)
\* variants.forEach: skuByVariantId[v.id] = sku, with sku = String(v.sku).trim()
RECURSIVE SkuByVariantId(_, _, _)
SkuByVariantId(variants, i, map) ==
    IF i > Len(variants) THEN map
    ELSE LET v   == variants[i]
             sku == Trim(v.sku)
         IN  IF sku = <<>> \/ v.item = 0
             THEN SkuByVariantId(variants, i + 1, map)
             ELSE SkuByVariantId(variants, i + 1, Put(map, v.id, sku))

\* variants.forEach: itemIdBySku[sku] = v.inventoryItem.id
RECURSIVE ItemIdBySku(_, _, _)
ItemIdBySku(variants, i, map) ==
    IF i > Len(variants) THEN map
    ELSE LET v   == variants[i]
             sku == Trim(v.sku)
         IN  IF sku = <<>> \/ v.item = 0
             THEN ItemIdBySku(variants, i + 1, map)
             ELSE ItemIdBySku(variants, i + 1, Assign(map, sku, v.item))

\* order.lineItems.forEach: sales[`${date}|${sku}`] += li.quantity
RECURSIVE IndexLineItems(_, _, _, _, _)
IndexLineItems(lineItems, j, date, skuOf, sales) ==
    IF j > Len(lineItems) THEN sales
    ELSE LET li == lineItems[j]
         IN  IF li.variantId = 0 \/ li.variantId \notin DOMAIN skuOf
             THEN IndexLineItems(lineItems, j + 1, date, skuOf, sales)
             ELSE LET key == <<date, skuOf[li.variantId]>>
                  IN  IndexLineItems(lineItems, j + 1, date, skuOf,
                          Put(sales, key, OrZero(sales, key) + li.quantity))

\* orders.forEach: the sales index (date, sku) -> quantity
RECURSIVE SalesIndex(_, _, _, _)
SalesIndex(orders, i, skuOf, sales) ==
    IF i > Len(orders) THEN sales
    ELSE SalesIndex(orders, i + 1, skuOf,
             IndexLineItems(orders[i].lineItems, 1, orders[i].createdAt, skuOf, sales))

\* the dates of the period: both bounds are Date objects here
DatesInPeriod(startDate, endDate) ==
    EnumerateFrom(NewDate(startDate), NewDate(endDate), <<>>)

\* invRaw.forEach((e) => { invMap[e.date] = e.available })
RECURSIVE InvMap(_, _, _)
InvMap(invRaw, i, map) ==
    IF i > Len(invRaw) THEN map
    ELSE InvMap(invRaw, i + 1, Put(map, invRaw[i].date, invRaw[i].available))

\* mutant: a day counts as a stockout day only when the availability is exactly 0
ComputeDayZeroOnly(acc, qtyAvail, sold) ==
    IF qtyAvail > 0
    THEN [acc EXCEPT !.total_sold = @ + sold,
                     !.days_in_stock = @ + 1,
                     !.sold_while_in_stock = @ + sold]
    ELSE IF qtyAvail = 0
    THEN [acc EXCEPT !.total_sold = @ + sold,
                     !.stockout_days = @ + 1]
    ELSE [acc EXCEPT !.total_sold = @ + sold]

\* the loop body: totalSold += sold; if (qtyAvail > 0) {...} else {...}
ComputeDay(acc, qtyAvail, sold) ==
    IF qtyAvail > 0
    THEN [acc EXCEPT !.total_sold = @ + sold,
                     !.days_in_stock = @ + 1,
                     !.sold_while_in_stock = @ + sold]
    ELSE [acc EXCEPT !.total_sold = @ + sold,
                     !.stockout_days = @ + 1]

RECURSIVE ComputeOverDates(_, _, _, _, _, _)
ComputeOverDates(dates, i, invMap, sales, sku, acc) ==
    IF i > Len(dates) THEN acc
    ELSE ComputeOverDates(dates, i + 1, invMap, sales, sku,
             ComputeDay(acc, OrZero(invMap, dates[i]), OrZero(sales, <<dates[i], sku>>)))

computeMetrics(variants, inventoryByItem, orders, startDate, endDate) ==
    LET skuOf  == SkuByVariantId(variants, 1, <<>>)
        itemOf == ItemIdBySku(variants, 1, <<>>)
        sales  == SalesIndex(orders, 1, skuOf, <<>>)
        dates  == DatesInPeriod(startDate, endDate)
    IN  [sku \in DOMAIN itemOf |->
            LET invRaw == IF itemOf[sku] \in DOMAIN inventoryByItem
                          THEN inventoryByItem[itemOf[sku]] ELSE <<>>
            IN  RowOf(sku, ComputeOverDates(dates, 1, InvMap(invRaw, 1, <<>>), sales,
                                            sku, ZeroMetrics))]

(***************************************************************************)
(* part_002, calculateMetrics.  A variant is [id, sku, item], an order     *)
(* line [date, sku, qty], invMapByItem maps an item id to its daily map.   *)
(***************************************************************************)
\* for (const o of orders): ordersByDateSku[`${o.date}|${o.sku}`] += o.qty
RECURSIVE OrdersByDateSku(_, _, _)
OrdersByDateSku(orders, i, index) ==
    IF i > Len(orders) THEN index
    ELSE LET key == <<orders[i].date, orders[i].sku>>
         IN  OrdersByDateSku(orders, i + 1,
                 Put(index, key, OrZero(index, key) + orders[i].qty))

\* mutant: the total is counted on stockout days only
MetricsDay002TotalInElse(acc, qty, sold) ==
    IF qty > 0
    THEN [acc EXCEPT !.days_in_stock = @ + 1,
                     !.sold_while_in_stock = @ + sold]
    ELSE [acc EXCEPT !.total_sold = @ + sold,
                     !.stockout_days = @ + 1]

\* the loop body: totalSold += sold; if (qty > 0) {...} else {...}
MetricsDay002(acc, qty, sold) ==
    IF qty > 0
    THEN [acc EXCEPT !.total_sold = @ + sold,
                     !.days_in_stock = @ + 1,
                     !.sold_while_in_stock = @ + sold]
    ELSE [acc EXCEPT !.total_sold = @ + sold,
                     !.stockout_days = @ + 1]

RECURSIVE MetricsOverDays002(_, _, _, _, _, _)
MetricsOverDays002(days, i, invDaily, index, sku, acc) ==
    IF i > Len(days) THEN acc
    ELSE MetricsOverDays002(days, i + 1, invDaily, index, sku,
             MetricsDay002(acc, OrZero(invDaily, days[i]), OrZero(index, <<days[i], sku>>)))

\* for (const v of variants): output[v.sku] = {...}; a later variant with the
\* same sku replaces the row of an earlier one
RECURSIVE MetricsPerVariant002(_, _, _, _, _, _)
MetricsPerVariant002(variants, i, invMapByItem, index, days, output) ==
    IF i > Len(variants) THEN output
    ELSE LET v        == variants[i]
             invDaily == IF v.item \in DOMAIN invMapByItem
                         THEN invMapByItem[v.item] ELSE <<>>
         IN  MetricsPerVariant002(variants, i + 1, invMapByItem, index, days,
                 Assign(output, v.sku,
                     Row002(v.sku,
                            MetricsOverDays002(days, 1, invDaily, index, v.sku,
                                               ZeroMetrics),
                            invDaily)))

calculateMetrics002(variants, invMapByItem, orders, startDay, endDay) ==
    LET days  == enumerateDays(NewDate(startDay), NewDate(endDay))
        index == OrdersByDateSku(orders, 1, <<>>)
    IN  MetricsPerVariant002(variants, 1, invMapByItem, index, days, <<>>)

(***************************************************************************)
(* Inputs of the normaliser: every string over a small alphabet up to      *)
(* MaxSkuLen characters, null, and the strings of the documented examples. *)
(***************************************************************************)
SkuAlphabet == {"A", "-", "#", " ", "\n"}

RECURSIVE StringsUpTo(_)
StringsUpTo(n) ==
    IF n = 0 THEN {<<>>}
    ELSE LET shorter == StringsUpTo(n - 1)
         IN  shorter \cup {Append(s, c) : s \in {t \in shorter : Len(t) = n - 1},
                                          c \in SkuAlphabet}

ExHat      == <<"H", "A", "T", "-", "0", "5", "3", "-", "#", "#">>
ExHatNorm  == <<"H", "A", "T", "-", "0", "5", "3">>
ExCus      == <<"C", "U", "S", "-", "0", "0", "2", "8", " ", " ", " ", "#", "#">>
ExCusNorm  == <<"C", "U", "S", "-", "0", "0", "2", "8">>
ExPlain    == <<"5", "0", "0", "0", "2">>

SkuInputs ==
    {Null} \cup {Str(s) : s \in StringsUpTo(MaxSkuLen) \cup {ExHat, ExCus, ExPlain}}

(***************************************************************************)
(* Inputs of the reconstruction functions.                                 *)
(***************************************************************************)
Days == 1..MaxDay

DeltaVals == {-1, 1, 2}

Adjustment == [date : Days, delta : DeltaVals]

RECURSIVE SeqsUpTo(_, _)
SeqsUpTo(S, n) ==
    IF n = 0 THEN {<<>>}
    ELSE LET shorter == SeqsUpTo(S, n - 1)
         IN  shorter \cup {Append(q, x) : q \in {t \in shorter : Len(t) = n - 1},
                                          x \in S}

\* maps from some of the days to units sold
SalesMaps == UNION {[D -> 0..MaxSold] : D \in SUBSET Days}

\* the worked example: three days, 10 units at the end, 2 and 1 sold before
Example ==
    [first |-> 1, last |-> 3, qty |-> 10, sales |-> (1 :> 2) @@ (2 :> 1) @@ (3 :> 0)]

SnapshotInputs ==
    {[first |-> s, last |-> e, qty |-> q, sales |-> m] :
        s \in Days, e \in Days, q \in 0..MaxQty, m \in SalesMaps}
    \cup {Example}

IsExample ==
    /\ eMode = "snapshot"
    /\ eStart.day = Example.first /\ eEnd.day = Example.last
    /\ eQty = Example.qty /\ eSales = Example.sales

(***************************************************************************)
(* Inputs of the metrics calculators: a catalog of two variants, with      *)
(* different SKUs, with the same SKU, with SKUs that differ in trailing    *)
(* whitespace, or with the SKU __proto__ (a run also has one with SKUs    *)
(* that are array indices); the availability of each item on some of the   *)
(* days; and the                                                           *)
(* order lines in arrival order (the orders are served by creation time).  *)
(***************************************************************************)
Variant(id, sku, item) == [id |-> id, sku |-> sku, item |-> item]

Catalogs ==
    {<<Variant(1, <<"X">>, 1), Variant(2, <<"Y">>, 2)>>,
     <<Variant(1, <<"X">>, 1), Variant(2, <<"X">>, 2)>>,
     <<Variant(1, <<"X">>, 1), Variant(2, <<"X", " ">>, 2)>>,
     <<Variant(1, ProtoKey, 1), Variant(2, ProtoKey, 2)>>}

\* the catalogs of a run, with one whose SKUs are array indices, the
\* greater first
RunCatalogs == Catalogs \cup {<<Variant(1, <<"2">>, 1), Variant(2, <<"1">>, 2)>>}

AvailVals == {-1, 1}

\* availability of the first item: a value on some of the days, none on the others
AvailMaps == UNION {[D -> AvailVals] : D \in SUBSET Days}

\* availability of the second item: one unit every day
OtherAvailMaps == {[d \in Days |-> 1]}

QtyVals == {1, 2}

\* an order line: the day, the variant id and the quantity
SaleEvent == [day : Days, vid : {1, 2}, qty : QtyVals]

IsByCreation(events) ==
    \A i \in 1..(Len(events) - 1) : events[i].day <= events[i + 1].day

SaleEventSeqs == {q \in SeqsUpTo(SaleEvent, MaxOrders) : IsByCreation(q)}

\* the list of [date, available] that fetchInventoryDailyForItem returns
EntriesOf(map) ==
    LET keys == SortedKeys(map)
    IN  [i \in 1..Len(keys) |-> [date |-> keys[i], available |-> map[keys[i]]]]

\* the order of inventory-report.js made of one event
OrderOf(ev) ==
    [createdAt |-> ev.day,
     lineItems |-> <<[variantId |-> ev.vid, quantity |-> ev.qty]>>]

\* the sku of a line item: that of its variant; a line without one has none
SkuOfVid(variants, vid) ==
    IF vid \in 1..Len(variants) THEN variants[vid].sku ELSE <<>>

\* part_002, fetchOrders: lines without a sku are dropped
RECURSIVE LinesOf(_, _, _, _)
LinesOf(events, i, variants, out) ==
    IF i > Len(events) THEN out
    ELSE LET sku == SkuOfVid(variants, events[i].vid)
         IN  LinesOf(events, i + 1, variants,
                 IF sku = <<>> THEN out
                 ELSE Append(out, [date |-> events[i].day, sku |-> sku,
                                   qty |-> events[i].qty]))

SkuIdle ==
    /\ skuPc = "idle"
    /\ skuRaw = Null
    /\ skuNorm = Null
    /\ skuTwice = Null

EngIdle ==
    /\ ePc = "idle"
    /\ eMode = "idle"
    /\ eStart = DayString(1)
    /\ eEnd = DayString(1)
    /\ eAdj = <<>>
    /\ eQty = 0
    /\ eSales = <<>>
    /\ eLevels002 = <<>>
    /\ eLevels003 = <<>>
    /\ eInventory = <<>>
    /\ eRow = ZeroMetrics
    /\ mVariants = <<>>
    /\ mInventory = <<>>
    /\ mOrders = <<>>
    /\ mOut = <<>>

FetchIdle ==
    /\ fPc = "idle"
    /\ fFetcher = "idle"
    /\ fRecords = <<>>
    /\ fFirst = 1
    /\ fCursor = 0
    /\ fRequests = <<>>
    /\ fOut = <<>>

RepIdle ==
    /\ hPc = "idle"
    /\ hCatalog = <<>>
    /\ hSales = <<>>
    /\ hHistory = <<>>
    /\ hFirst = 1
    /\ hCursor = 0
    /\ hVariants = <<>>
    /\ hBatchAt = 0
    /\ hInFlight = {}
    /\ hInventoryByItem = <<>>
    /\ hOrders = <<>>
    /\ hRequests = <<>>
    /\ hResponses = <<>>

RestIdle ==
    /\ rPc = "idle"
    /\ rPart = "idle"
    /\ rCatalog = <<>>
    /\ rLimit = 1
    /\ rLinkInBody = FALSE
    /\ rStock = <<>>
    /\ rSales = <<>>
    /\ rPageInfo = 0
    /\ rVariants = <<>>
    /\ rAt = 0
    /\ rInvMapByItem = <<>>
    /\ rOrders = <<>>
    /\ rOutput = <<>>
    /\ rRequests = <<>>
    /\ rResponses = <<>>

SellIdle ==
    /\ sPc = "idle"
    /\ sMode = "idle"
    /\ sEnv = {}
    /\ sText = <<>>
    /\ sRows = <<>>
    /\ sSheet = <<>>
    /\ sSales = <<>>
    /\ sItems = <<>>
    /\ sOrders = <<>>
    /\ sCursor = 0
    /\ sRequests = <<>>
    /\ sResponses = <<>>
    /\ sTouched = {}

BatchIdle ==
    /\ bPc = "idle"
    /\ bVariants = <<>>
    /\ bFailing = {}
    /\ bAt = 0
    /\ bInFlight = {}
    /\ bInventoryByItem = <<>>
    /\ bWrites = <<>>
    /\ bRequests = <<>>

LinkIdle ==
    /\ lPc = "idle"
    /\ lFetcher = "idle"
    /\ lRecords = <<>>
    /\ lLimit = 1
    /\ lLinkInBody = FALSE
    /\ lPageInfo = 0
    /\ lRequests = <<>>
    /\ lOut = <<>>

RunIdle ==
    /\ kPc = "idle"
    /\ kMode = "idle"
    /\ kVariants = <<>>
    /\ kHistory = <<>>
    /\ kFailed = FALSE
    /\ kInventory = <<>>
    /\ kOrders = <<>>
    /\ kIndex = <<>>
    /\ kIndexAtFirst = <<>>
    /\ kBuilds = 0
    /\ kAt = 0
    /\ kOutput = <<>>

(***************************************************************************)
(* The normaliser, applied to an input and to its own result.              *)
(***************************************************************************)
SkuInit ==
    /\ skuPc = "raw"
    /\ skuRaw \in SkuInputs
    /\ skuNorm = Null
    /\ skuTwice = Null
    /\ EngIdle
    /\ FetchIdle
    /\ RepIdle
    /\ RestIdle
    /\ SellIdle
    /\ BatchIdle
    /\ LinkIdle
    /\ RunIdle

\* const skuNorm = normaliseSku(rawSku)
Normalise ==
    /\ skuPc = "raw"
    /\ skuNorm' = normaliseSku(skuRaw)
    /\ skuPc' = "once"
    /\ UNCHANGED <<skuRaw, skuTwice, engVars, fetchVars, repVars, restVars, sellVars,
                   batchVars, linkVars, runVars>>

\* the normalised key is normalised again (a key read back from a report)
NormaliseAgain ==
    /\ skuPc = "once"
    /\ skuTwice' = normaliseSku(skuNorm)
    /\ skuPc' = "twice"
    /\ UNCHANGED <<skuRaw, skuNorm, engVars, fetchVars, repVars, restVars, sellVars,
                   batchVars, linkVars, runVars>>

SkuNext == Normalise \/ NormaliseAgain

SpecSku == SkuInit /\ [][SkuNext]_vars

(***************************************************************************)
(* The reconstruction functions, applied to the inputs of one item.        *)
(*   levels:   reconstructDailyLevels of part_002 and of part_003          *)
(*   snapshot: reconstructDailyInventory, then calculateMetrics (part_004) *)
(* The handlers pass the window as day strings; reconstructDailyInventory  *)
(* hands them to enumerateDays as they are, so both a window of day        *)
(* strings and a window of Date objects are inputs of it.                  *)
(***************************************************************************)
EngInitLevels ==
    /\ eMode = "levels"
    /\ \E s \in Days, e \in Days :
          /\ s <= e
          /\ eStart = DayString(s)
          /\ eEnd = DayString(e)
    /\ eAdj \in SeqsUpTo(Adjustment, MaxAdj)
    /\ eQty = 0
    /\ eSales = <<>>

EngInitSnapshot ==
    /\ eMode = "snapshot"
    /\ \E in \in SnapshotInputs, kind \in {"string", "Date"} :
          /\ in.first <= in.last
          /\ eStart = [kind |-> kind, day |-> in.first]
          /\ eEnd = [kind |-> kind, day |-> in.last]
          /\ eQty = in.qty
          /\ eSales = in.sales
    /\ eAdj = <<>>

EngInitMetrics ==
    /\ eMode \in {"history", "adjust"}
    /\ \E s \in Days, e \in Days :
          /\ s <= e
          /\ eStart = DayString(s)
          /\ eEnd = DayString(e)
    /\ eAdj = <<>>
    /\ eQty = 0
    /\ eSales = <<>>
    /\ mVariants \in Catalogs
    /\ \E a \in AvailMaps, b \in OtherAvailMaps, evs \in SaleEventSeqs :
          /\ mInventory = IF eMode = "history"
                          THEN (1 :> EntriesOf(a)) @@ (2 :> EntriesOf(b))
                          ELSE (1 :> a) @@ (2 :> b)
          /\ mOrders = IF eMode = "history"
                       THEN [i \in 1..Len(evs) |-> OrderOf(evs[i])]
                       ELSE LinesOf(evs, 1, mVariants, <<>>)

EngInit ==
    /\ SkuIdle
    /\ FetchIdle
    /\ RepIdle
    /\ RestIdle
    /\ SellIdle
    /\ BatchIdle
    /\ LinkIdle
    /\ RunIdle
    /\ ePc = "input"
    /\ \/ (EngInitLevels \/ EngInitSnapshot)
          /\ mVariants = <<>> /\ mInventory = <<>> /\ mOrders = <<>>
       \/ EngInitMetrics
    /\ mOut = <<>>
    /\ eLevels002 = <<>>
    /\ eLevels003 = <<>>
    /\ eInventory = <<>>
    /\ eRow = ZeroMetrics

engInputs == <<eMode, eStart, eEnd, eAdj, eQty, eSales,
               mVariants, mInventory, mOrders>>

\* part_002: invMapByItem[id] = reconstructDailyLevels(startDay, endDay, adjustments)
ReconstructLevels002 ==
    /\ eMode = "levels" /\ ePc = "input"
    /\ eLevels002' = reconstructDailyLevels002(eStart, eEnd, eAdj)
    /\ ePc' = "levels002"
    /\ UNCHANGED <<engInputs, eLevels003, eInventory, eRow, mOut, skuVars, fetchVars, repVars,
                   restVars, sellVars,
                   batchVars, linkVars, runVars>>

\* part_003: invMapByItem[id] = reconstructDailyLevels(startDay, endDay, adjustments)
ReconstructLevels003 ==
    /\ eMode = "levels" /\ ePc = "levels002"
    /\ eLevels003' = reconstructDailyLevels003(eStart, eEnd, eAdj)
    /\ ePc' = "done"
    /\ UNCHANGED <<engInputs, eLevels002, eInventory, eRow, mOut, skuVars, fetchVars, repVars,
                   restVars, sellVars,
                   batchVars, linkVars, runVars>>

\* part_004: inventory = reconstructDailyInventory(startDay, endDay, finalQty, salesMap)
ReconstructInventory ==
    /\ eMode = "snapshot" /\ ePc = "input"
    /\ eInventory' = reconstructDailyInventory(eStart, eEnd, eQty, eSales)
    /\ ePc' = "series"
    /\ UNCHANGED <<engInputs, eLevels002, eLevels003, eRow, mOut, skuVars, fetchVars, repVars,
                   restVars, sellVars,
                   batchVars, linkVars, runVars>>

\* part_004: metrics = calculateMetrics(inventory, salesMap)
CalculateSnapshot ==
    /\ eMode = "snapshot" /\ ePc = "series"
    /\ eRow' = calculateMetrics004(eInventory, eSales)
    /\ ePc' = "done"
    /\ UNCHANGED <<engInputs, eLevels002, eLevels003, eInventory, mOut, skuVars, fetchVars, repVars,
                   restVars, sellVars,
                   batchVars, linkVars, runVars>>

\* inventory-report.js: metrics = computeMetrics(variants, inventoryByItem, orders, ...)
ComputeMetrics ==
    /\ eMode = "history" /\ ePc = "input"
    /\ mOut' = computeMetrics(mVariants, mInventory, mOrders, eStart, eEnd)
    /\ ePc' = "done"
    /\ UNCHANGED <<engInputs, eLevels002, eLevels003, eInventory, eRow, skuVars, fetchVars, repVars,
                   restVars, sellVars,
                   batchVars, linkVars, runVars>>

\* part_002: results = calculateMetrics(variants, invMapByItem, orders, startDay, endDay)
CalculateMetrics ==
    /\ eMode = "adjust" /\ ePc = "input"
    /\ mOut' = calculateMetrics002(mVariants, mInventory, mOrders, eStart, eEnd)
    /\ ePc' = "done"
    /\ UNCHANGED <<engInputs, eLevels002, eLevels003, eInventory, eRow, skuVars, fetchVars, repVars,
                   restVars, sellVars,
                   batchVars, linkVars, runVars>>

EngNext ==
    \/ ComputeMetrics
    \/ CalculateMetrics
    \/ ReconstructLevels002
    \/ ReconstructLevels003
    \/ ReconstructInventory
    \/ CalculateSnapshot

SpecEngine == EngInit /\ [][EngNext]_vars

(***************************************************************************)
(* Reference values for the claims about reconstruction.                   *)
(***************************************************************************)
WindowDays == {d \in Days : eStart.day <= d /\ d <= eEnd.day}

WindowLength == eEnd.day - eStart.day + 1

RECURSIVE SumSet(_, _)
SumSet(f, D) ==
    IF D = {} THEN 0
    ELSE LET d == CHOOSE x \in D : TRUE
         IN  f[d] + SumSet(f, D \ {d})

\* units sold on the days of the window strictly after d
SoldAfter(d) == SumSet(eSales, {x \in DOMAIN eSales : d < x /\ x <= eEnd.day})

\* sum of the deltas of the adjustments dated d
DeltaSum(d) ==
    LET hits == {i \in 1..Len(eAdj) : eAdj[i].date = d}
    IN  SumSet([i \in hits |-> eAdj[i].delta], hits)

SeriesReady == eMode = "snapshot" /\ ePc \in {"series", "done"}

(***************************************************************************)
(* The rows of a report: those of the catalog calculators, and the row of  *)
(* the snapshot-based calculator.                                          *)
(***************************************************************************)
CatalogRowsReady == eMode \in {"history", "adjust"} /\ ePc = "done"

SnapshotRowReady == eMode = "snapshot" /\ ePc = "done"

(***************************************************************************)
(* C1: in every row of computeMetrics (inventory-report.js) and of         *)
(* calculateMetrics (part_002), days_in_stock + stockout_days is the       *)
(* number of days of the window, both ends included.                       *)
(***************************************************************************)
C1_DaysPartitionWindow ==
    CatalogRowsReady =>
        \A sku \in DOMAIN mOut :
            mOut[sku].days_in_stock + mOut[sku].stockout_days = WindowLength

C1_Witness ==
    /\ CatalogRowsReady
    /\ WindowLength >= 2
    /\ \E sku \in DOMAIN mOut :
          mOut[sku].days_in_stock > 0 /\ mOut[sku].stockout_days > 0

(***************************************************************************)
(* C2: in every row of every report, sold_while_in_stock <= total_sold     *)
(* (the quantities sold are not negative).                                 *)
(***************************************************************************)
C2_SoldInStockAtMostTotal ==
    /\ CatalogRowsReady =>
          \A sku \in DOMAIN mOut :
              mOut[sku].sold_while_in_stock <= mOut[sku].total_sold
    /\ SnapshotRowReady => eRow.sold_while_in_stock <= eRow.total_sold

C2_Witness ==
    /\ CatalogRowsReady
    /\ \E sku \in DOMAIN mOut :
          /\ mOut[sku].sold_while_in_stock > 0
          /\ mOut[sku].sold_while_in_stock < mOut[sku].total_sold

(***************************************************************************)
(* C3: normaliseSku is idempotent: normalising a normalised SKU returns it *)
(* unchanged, for every input string.                                      *)
(***************************************************************************)
C3_Idempotent == skuPc = "twice" => skuTwice = skuNorm

(***************************************************************************)
(* C4: raw SKUs that differ only in a trailing variant-count suffix have   *)
(* the same key: a base b, b followed by "-" and hashes, and b followed by *)
(* whitespace and hashes without a hyphen all normalise to b; the four     *)
(* documented examples hold.                                               *)
(***************************************************************************)
\* a base SKU: trimmed, not empty, and not itself ending in suffix characters
IsBase(b) ==
    /\ b # <<>>
    /\ ~IsWs(b[1])
    /\ ~IsWs(b[Len(b)])
    /\ b[Len(b)] \notin {"#", "-"}

\* raw is b followed by "-" and hashes
HyphenSuffixed(raw, b) ==
    /\ Len(raw) >= Len(b) + 2
    /\ SubSeq(raw, 1, Len(b)) = b
    /\ raw[Len(b) + 1] = "-"
    /\ \A j \in (Len(b) + 2)..Len(raw) : raw[j] = "#"

\* raw is b followed by whitespace and hashes, without a hyphen
SpaceSuffixed(raw, b) ==
    /\ Len(raw) >= Len(b) + 2
    /\ SubSeq(raw, 1, Len(b)) = b
    /\ \E h \in (Len(b) + 2)..Len(raw) :
          /\ \A j \in (Len(b) + 1)..(h - 1) : IsWs(raw[j])
          /\ \A j \in h..Len(raw) : raw[j] = "#"

C4_SuffixesNormaliseToBase ==
    skuPc = "once" /\ skuRaw.tag = "string" =>
        /\ IsBase(skuRaw.chars) => skuNorm = skuRaw
        /\ \A n \in 1..Len(skuRaw.chars) :
              LET b == SubSeq(skuRaw.chars, 1, n)
              IN  IsBase(b) /\ (HyphenSuffixed(skuRaw.chars, b) \/ SpaceSuffixed(skuRaw.chars, b))
                      => skuNorm = Str(b)
        /\ skuRaw.chars = ExHat => skuNorm = Str(ExHatNorm)
        /\ skuRaw.chars = ExCus => skuNorm = Str(ExCusNorm)
        /\ skuRaw.chars = ExPlain => skuNorm = Str(ExPlain)
        /\ skuRaw.chars = <<>> => skuNorm = Null

(***************************************************************************)
(* C5: for the 3-day window with 10 units at day 3 and sales 2, 1, 0 on    *)
(* days 1, 2, 3, reconstructDailyInventory returns 13, 11, 10.             *)
(* As stated this fails; what the function returns is 11, 10, 10 when the  *)
(* window is given as Date objects and the empty series when it is given   *)
(* as day strings (C5_ExampleAmended).                                     *)
(***************************************************************************)
C5_ExampleAsStated ==
    SeriesReady /\ IsExample => eInventory = (1 :> 13) @@ (2 :> 11) @@ (3 :> 10)

\* C5, amended: for that example the function returns 11, 10, 10 when the
\* window is given as Date objects, and the empty series when it is given as
\* day strings
C5_ExampleAmended ==
    SeriesReady /\ IsExample =>
        IF eEnd.kind = "Date"
        THEN eInventory = (1 :> 11) @@ (2 :> 10) @@ (3 :> 10)
        ELSE DOMAIN eInventory = {}

C5_Witness ==
    /\ SeriesReady /\ IsExample /\ eEnd.kind = "Date"
    /\ DOMAIN eInventory = {1, 2, 3}
    /\ eInventory[1] = 11

(***************************************************************************)
(* C6: for every window, every day of the window is assigned the snapshot  *)
(* quantity plus the units sold on the later days of the window (the day's *)
(* own sales are not in it); so the last day holds the snapshot quantity,  *)
(* the series never increases from a day to the next, and without sales    *)
(* every day of the window holds the snapshot quantity.                    *)
(***************************************************************************)
C6_BackwardRule ==
    SeriesReady =>
        /\ \A d \in WindowDays :
              d \in DOMAIN eInventory /\ eInventory[d] = eQty + SoldAfter(d)
        /\ WindowDays # {} =>
              eEnd.day \in DOMAIN eInventory /\ eInventory[eEnd.day] = eQty
        /\ \A d \in DOMAIN eInventory :
              d + 1 \in DOMAIN eInventory => eInventory[d] >= eInventory[d + 1]
        /\ (\A x \in DOMAIN eSales : eSales[x] = 0) =>
              \A d \in WindowDays :
                  d \in DOMAIN eInventory /\ eInventory[d] = eQty

(***************************************************************************)
(* C7: called with the day strings of the window, as the handler of the    *)
(* snapshot-based report calls it, reconstructDailyInventory returns a     *)
(* series whose keys are exactly the days of the window (one key when the  *)
(* window is a single day), and the metrics computed from it count every   *)
(* day of the window.                                                      *)
(***************************************************************************)
C7_KeysAreWindowDays ==
    eMode = "snapshot" /\ eEnd.kind = "string" /\ ePc = "done" =>
        /\ DOMAIN eInventory = WindowDays
        /\ eStart.day = eEnd.day => Cardinality(DOMAIN eInventory) = 1
        /\ eRow.days_in_stock + eRow.stockout_days = WindowLength

(***************************************************************************)
(* C8: after reconstructDailyLevels, in part_002 and in part_003, every    *)
(* day of the window holds the sum of the deltas of the adjustments dated  *)
(* that day, and the series has no other key.                              *)
(***************************************************************************)
ExpectedLevels == [d \in WindowDays |-> DeltaSum(d)]

C8_ForwardAccumulation ==
    eMode = "levels" /\ ePc = "done" =>
        /\ eLevels003 = ExpectedLevels
        /\ eLevels002 = ExpectedLevels

(***************************************************************************)
(* Cursor connections.  The upstream holds a collection of records in a    *)
(* fixed order; record i is served in an edge whose cursor is i, and the   *)
(* cursor null is 0.  A request carries a cursor and is answered with the  *)
(* page of at most `first` records that follow it, and with hasNextPage,   *)
(* which tells whether records follow the page.                            *)
(***************************************************************************)
Edge(i, node) == [cursor |-> i, node |-> node]

\* products(first: 50, after: $cursor) and orders(first: 100, after: $cursor)
ServePage(nodes, cursor, first) ==
    LET n    == Len(nodes)
        last == IF cursor + first < n THEN cursor + first ELSE n
    IN  [edges       |-> [k \in 1..(last - cursor) |->
                             Edge(cursor + k, nodes[cursor + k])],
         hasNextPage |-> last < n]

\* mutant: the cursor of the first edge of the page
FirstCursor(edges) == edges[1].cursor

\* edges[edges.length - 1].cursor
LastCursor(edges) == edges[Len(edges)].cursor

(***************************************************************************)
(* inventory-report.js, fetchAllVariants.  A product node is the list of   *)
(* its variant nodes [id, sku, item]; the sku "" and the item id 0 stand   *)
(* for a missing sku and a missing inventory item.                         *)
(***************************************************************************)
\* if (!v.sku) continue; if (!v.inventoryItem?.id) continue; variants.push(v)
RECURSIVE PushVariants(_, _, _)
PushVariants(vNodes, j, variants) ==
    IF j > Len(vNodes) THEN variants
    ELSE LET v == vNodes[j]
         IN  PushVariants(vNodes, j + 1,
                 IF v.sku = <<>> \/ v.item = 0 THEN variants
                 ELSE Append(variants, v))

\* for (const edge of edges) for (const vEdge of edge.node.variants.edges || [])
RECURSIVE VariantsOfEdges(_, _, _)
VariantsOfEdges(edges, i, variants) ==
    IF i > Len(edges) THEN variants
    ELSE VariantsOfEdges(edges, i + 1, PushVariants(edges[i].node, 1, variants))

\* one turn of while (true), from the response to the break or the next turn;
\* the cursor of the last edge of a page without edges is a TypeError
fetchAllVariantsStep(cursor, variants, page) ==
    LET pushed == VariantsOfEdges(page.edges, 1, variants)
    IN  IF ~page.hasNextPage
        THEN [pc |-> "returned", cursor |-> cursor, out |-> pushed]
        ELSE IF page.edges = <<>>
        THEN [pc |-> "threw", cursor |-> cursor, out |-> pushed]
        ELSE [pc |-> "loop", cursor |-> LastCursor(page.edges), out |-> pushed]

(***************************************************************************)
(* inventory-report.js, fetchOrders.  An order node is [createdAt,         *)
(* lineItems], a line item node [quantity, variant]; the variant 0 stands  *)
(* for a line without a variant.                                           *)
(***************************************************************************)
\* { variantId: li.variant?.id || null, quantity: li.quantity || 0 }
LineItemOf(li) == [variantId |-> li.variant, quantity |-> li.quantity]

\* results.push({ createdAt: order.createdAt, lineItems: items })
RECURSIVE OrdersOfEdges(_, _, _)
OrdersOfEdges(edges, i, results) ==
    IF i > Len(edges) THEN results
    ELSE LET order == edges[i].node
             items == [j \in 1..Len(order.lineItems) |-> LineItemOf(order.lineItems[j])]
         IN  OrdersOfEdges(edges, i + 1,
                 Append(results, [createdAt |-> order.createdAt, lineItems |-> items]))

\* mutant: the fetcher returns after the first page
fetchOrdersStepFirstPage(cursor, results, page) ==
    [pc |-> "returned", cursor |-> cursor, out |-> OrdersOfEdges(page.edges, 1, results)]

fetchOrdersStep(cursor, results, page) ==
    LET pushed == OrdersOfEdges(page.edges, 1, results)
    IN  IF ~page.hasNextPage
        THEN [pc |-> "returned", cursor |-> cursor, out |-> pushed]
        ELSE IF page.edges = <<>>
        THEN [pc |-> "threw", cursor |-> cursor, out |-> pushed]
        ELSE [pc |-> "loop", cursor |-> LastCursor(page.edges), out |-> pushed]

(***************************************************************************)
(* sell-through.js, fetchSalesBySku.  A line item node is [sku, quantity]  *)
(* with sku a string or null; stats maps a normalised sku to its entry.    *)
(***************************************************************************)
\* if (!skuNorm) return null; if (!stats[skuNorm]) stats[skuNorm] = {...}:
\* no entry is made under the name of a member of Object.prototype
ensureSku(stats, normSku, rawSku) ==
    IF Falsy(normSku) THEN stats
    ELSE IF Found(stats, normSku.chars) THEN stats
    ELSE Put(stats, normSku.chars,
             [sku            |-> normSku.chars,
              any_raw_sku    |-> IF Falsy(rawSku) THEN normSku.chars ELSE rawSku.chars,
              total_sold_24m |-> 0])

\* the normalised sku of a line item
NormOfLineItem(li) ==
    normaliseSku(IF Falsy(li.sku) THEN Null ELSE Str(Trim(li.sku.chars)))

\* the body of for (const liEdge of order.lineItems.edges); when ensureSku
\* returns an inherited member the quantity goes to that member, not to stats
AddLineItem(stats, li) ==
    LET rawSku  == IF Falsy(li.sku) THEN Null ELSE Str(Trim(li.sku.chars))
        normSku == NormOfLineItem(li)
    IN  IF Falsy(normSku) THEN stats
        ELSE LET s == ensureSku(stats, normSku, rawSku)
             IN  IF normSku.chars \in DOMAIN s
                 THEN [s EXCEPT ![normSku.chars].total_sold_24m = @ + li.quantity]
                 ELSE s

\* the members of Object.prototype that s.total_sold_24m += qty writes to
\* while the edges are read: the names among the normalised skus of the line
\* items of the orders that are counted (stats has no own key of such a name)
TouchedOfEdges(edges, cutoff) ==
    UNION {{NormOfLineItem(edges[i].node.lineItems[j]).chars :
               j \in 1..Len(edges[i].node.lineItems)} :
           i \in {k \in 1..Len(edges) : ~(edges[k].node.createdAt < cutoff)}}
        \cap ObjectPrototypeKeys

RECURSIVE AddLineItems(_, _, _)
AddLineItems(lineItems, j, stats) ==
    IF j > Len(lineItems) THEN stats
    ELSE AddLineItems(lineItems, j + 1, AddLineItem(stats, lineItems[j]))

\* for (const edge of edges): if (orderDate < cutoff) continue; ...
RECURSIVE StatsOfEdges(_, _, _, _)
StatsOfEdges(edges, i, cutoff, stats) ==
    IF i > Len(edges) THEN stats
    ELSE LET order == edges[i].node
         IN  StatsOfEdges(edges, i + 1, cutoff,
                 IF order.createdAt < cutoff THEN stats
                 ELSE AddLineItems(order.lineItems, 1, stats))

\* one turn of while (hasNext): the loop goes on when the page has edges and
\* reports a next page
fetchSalesBySkuStep(cursor, stats, page, cutoff) ==
    LET hasNext == page.hasNextPage
        summed  == StatsOfEdges(page.edges, 1, cutoff, stats)
    IN  IF Len(page.edges) > 0
        THEN [pc     |-> IF hasNext THEN "loop" ELSE "returned",
              cursor |-> LastCursor(page.edges), out |-> summed]
        ELSE [pc |-> "returned", cursor |-> cursor, out |-> summed]

(***************************************************************************)
(* Upstream collections.  Each record is of one of a few kinds; record i   *)
(* of a collection is built from its position and its kind.                *)
(***************************************************************************)
ProductKinds == {"plain", "nosku", "noitem"}

\* product i: one variant; one variant without a sku; or a variant without
\* an inventory item followed by a complete one
ProductNode(i, kind) ==
    CASE kind = "plain"  -> <<Variant(2 * i, <<ToString(i)>>, i)>>
      [] kind = "nosku"  -> <<Variant(2 * i, <<>>, i)>>
      [] kind = "noitem" -> <<Variant(2 * i - 1, <<ToString(i)>>, 0),
                              Variant(2 * i, <<ToString(i)>>, i)>>

OrderKinds == {"line", "novariant", "two"}

\* the day of order i: the orders are served by creation time
CreatedAt(i) == IF i < MaxDay THEN i ELSE MaxDay

\* order i of the orders connection of inventory-report.js
OrderNode(i, kind) ==
    [createdAt |-> CreatedAt(i),
     lineItems |->
        CASE kind = "line"      -> <<[quantity |-> 1, variant |-> 2]>>
          [] kind = "novariant" -> <<[quantity |-> 2, variant |-> 0]>>
          [] kind = "two"       -> <<[quantity |-> 1, variant |-> 2],
                                     [quantity |-> 2, variant |-> 4]>>]

SalesKinds == {"plain", "suffixed", "nosku", "member", "field"}

\* order i of the orders connection of sell-through.js
SalesNode(i, kind) ==
    [createdAt |-> CreatedAt(i),
     lineItems |->
        CASE kind = "plain"    -> <<[sku |-> Str(<<"A">>), quantity |-> 1]>>
          [] kind = "suffixed" -> <<[sku |-> Str(<<"A", "-", "#">>), quantity |-> 2]>>
          [] kind = "nosku"    -> <<[sku |-> Null, quantity |-> 1],
                                    [sku |-> Str(<<"B", "\n">>), quantity |-> 1]>>
          [] kind = "member"   -> <<[sku |-> Str(ConstructorKey), quantity |-> 1],
                                    [sku |-> Str(<<"A">>), quantity |-> 1]>>
          [] kind = "field"    -> <<[sku |-> Str(SkuRawKey), quantity |-> 1]>>]

\* the query asks for the orders created at the cutoff or later: the cutoff
\* is the first day of the calendar
Cutoff == CHOOSE d \in Days : \A e \in Days : d <= e

Fetchers == {"fetchAllVariants", "fetchOrders", "fetchSalesBySku"}

KindsOf(fetcher) ==
    CASE fetcher = "fetchAllVariants" -> ProductKinds
      [] fetcher = "fetchOrders"      -> OrderKinds
      [] fetcher = "fetchSalesBySku"  -> SalesKinds

NodesOf(fetcher, kinds) ==
    [i \in 1..Len(kinds) |->
        CASE fetcher = "fetchAllVariants" -> ProductNode(i, kinds[i])
          [] fetcher = "fetchOrders"      -> OrderNode(i, kinds[i])
          [] fetcher = "fetchSalesBySku"  -> SalesNode(i, kinds[i])]

(***************************************************************************)
(* A paging fetcher run against a connection that answers every request.   *)
(* An action is one turn of the fetcher's loop: the request with the       *)
(* current cursor, the response, and the code up to the next request or    *)
(* to the return.                                                          *)
(***************************************************************************)
FetchInit ==
    /\ SkuIdle
    /\ EngIdle
    /\ RepIdle
    /\ RestIdle
    /\ SellIdle
    /\ BatchIdle
    /\ LinkIdle
    /\ RunIdle
    /\ fPc = "loop"
    /\ fFetcher \in Fetchers
    /\ fRecords \in SeqsUpTo(KindsOf(fFetcher), MaxRecords)
    /\ fFirst \in 1..MaxFirst
    /\ fCursor = 0
    /\ fRequests = <<>>
    /\ fOut = <<>>

FetchTurn(st) ==
    /\ fRequests' = Append(fRequests, fCursor)
    /\ fPc' = st.pc
    /\ fCursor' = st.cursor
    /\ fOut' = st.out
    /\ UNCHANGED <<fFetcher, fRecords, fFirst, skuVars, engVars, repVars,
                   restVars, sellVars,
                   batchVars, linkVars, runVars>>

FetchVariantsPage ==
    /\ fFetcher = "fetchAllVariants" /\ fPc = "loop"
    /\ FetchTurn(fetchAllVariantsStep(fCursor, fOut,
           ServePage(NodesOf(fFetcher, fRecords), fCursor, fFirst)))

FetchOrdersPage ==
    /\ fFetcher = "fetchOrders" /\ fPc = "loop"
    /\ FetchTurn(fetchOrdersStep(fCursor, fOut,
           ServePage(NodesOf(fFetcher, fRecords), fCursor, fFirst)))

FetchSalesPage ==
    /\ fFetcher = "fetchSalesBySku" /\ fPc = "loop"
    /\ FetchTurn(fetchSalesBySkuStep(fCursor, fOut,
           ServePage(NodesOf(fFetcher, fRecords), fCursor, fFirst), Cutoff))

FetchNext == FetchVariantsPage \/ FetchOrdersPage \/ FetchSalesPage

SpecFetch == FetchInit /\ [][FetchNext]_vars

(***************************************************************************)
(* Reference values for paging: the pages of the collection as the         *)
(* connection cuts them, and the result of reading the whole collection    *)
(* as a single page.                                                       *)
(***************************************************************************)
PageCount ==
    IF fRecords = <<>> THEN 1 ELSE (Len(fRecords) + fFirst - 1) \div fFirst

PagesServed ==
    [k \in 1..PageCount |->
        ServePage(NodesOf(fFetcher, fRecords), (k - 1) * fFirst, fFirst)]

\* the cursor the k-th request has to carry
ExpectedCursor(k) ==
    IF k = 1 THEN 0
    ELSE LET prev == PagesServed[k - 1].edges IN prev[Len(prev)].cursor

WholeCollection ==
    [edges       |-> [i \in 1..Len(fRecords) |->
                         Edge(i, NodesOf(fFetcher, fRecords)[i])],
     hasNextPage |-> FALSE]

AllRecordsRead ==
    CASE fFetcher = "fetchAllVariants" ->
             VariantsOfEdges(WholeCollection.edges, 1, <<>>)
      [] fFetcher = "fetchOrders" ->
             OrdersOfEdges(WholeCollection.edges, 1, <<>>)
      [] fFetcher = "fetchSalesBySku" ->
             StatsOfEdges(WholeCollection.edges, 1, Cutoff, <<>>)

(***************************************************************************)
(* C9: against a connection that serves the collection in pages, each of   *)
(* the three fetchers requests every page once and in order, the first     *)
(* request carrying no cursor and every later one the cursor of the last   *)
(* edge of the page before; it goes on while pages remain, returns after   *)
(* the first page that reports no next page, and what it returns is what   *)
(* reading all the records in order gives, none lost and none read twice.  *)
(***************************************************************************)
C9_CursorPaging ==
    fFetcher \in Fetchers =>
        /\ Len(fRequests) <= PageCount
        /\ \A k \in 1..Len(fRequests) : fRequests[k] = ExpectedCursor(k)
        /\ fPc \in {"loop", "returned"}
        /\ fPc = "loop" => Len(fRequests) < PageCount
        /\ fPc = "returned" =>
              /\ Len(fRequests) = PageCount
              /\ ~PagesServed[PageCount].hasNextPage
              /\ \A k \in 1..(PageCount - 1) : PagesServed[k].hasNextPage
              /\ fOut = AllRecordsRead

C9_Witness ==
    /\ fFetcher \in Fetchers
    /\ fPc = "returned"
    /\ fFirst > 1
    /\ Len(fRequests) >= 3
    /\ fOut # <<>>

(***************************************************************************)
(* inventory-report.js, shopifyGraphQL.  A response is [ok, body, data]:   *)
(* ok is the success of the HTTP status; the body is JSON with data        *)
(* ("data"), JSON with errors ("errors"), or text that is not JSON         *)
(* ("text").  The result tells whether the helper threw, and with which    *)
(* message; a message is kept up to the text the helper appends to it.     *)
(***************************************************************************)
Threw(message) == [threw |-> TRUE, message |-> message, data |-> <<>>]

\* mutant: the HTTP status is not looked at
shopifyGraphQLNoStatus(response) ==
    IF response.body = "text" THEN Threw("Invalid JSON from Shopify")
    ELSE IF response.body = "errors" THEN Threw("Shopify GraphQL error")
    ELSE [threw |-> FALSE, message |-> "", data |-> response.data]

shopifyGraphQL(response) ==
    IF response.body = "text" THEN Threw("Invalid JSON from Shopify")
    ELSE IF ~response.ok \/ response.body = "errors" THEN Threw("Shopify GraphQL error")
    ELSE [threw |-> FALSE, message |-> "", data |-> response.data]

\* the responses the upstream can give to a request whose data is `data`
Responses(data) ==
    {[ok |-> o, body |-> b, data |-> data] : o \in BOOLEAN, b \in {"data", "errors", "text"}}

(***************************************************************************)
(* inventory-report.js, fetchInventoryDailyForItem.  A history node is     *)
(* [occurredAt, availableAfterAdjustment] with occurredAt a [day, time];   *)
(* byDate keeps its keys in the order of their first insertion.            *)
(***************************************************************************)
\* mutant: the first availableAfterAdjustment of a date is kept
SetByDateFirst(entries, date, available) ==
    IF \E i \in 1..Len(entries) : entries[i].date = date
    THEN entries
    ELSE Append(entries, [date |-> date, available |-> available])

\* byDate[date] = node.availableAfterAdjustment
SetByDate(entries, date, available) ==
    IF \E i \in 1..Len(entries) : entries[i].date = date
    THEN [i \in 1..Len(entries) |->
             IF entries[i].date = date
             THEN [date |-> date, available |-> available]
             ELSE entries[i]]
    ELSE Append(entries, [date |-> date, available |-> available])

RECURSIVE ByDate(_, _, _)
ByDate(hist, i, entries) ==
    IF i > Len(hist) THEN entries
    ELSE ByDate(hist, i + 1,
             SetByDate(entries, hist[i].occurredAt.day,
                       hist[i].availableAfterAdjustment))

\* Object.entries(byDate).map(([date, available]) => ({ date, available }))
fetchInventoryDailyForItem(hist) == ByDate(hist, 1, <<>>)

(***************************************************************************)
(* inventory-report.js, the handler.                                       *)
(***************************************************************************)
\* mutant: the ids are not de-duplicated
RECURSIVE IdsOfAllVariants(_, _, _)
IdsOfAllVariants(variants, i, ids) ==
    IF i > Len(variants) THEN ids
    ELSE IdsOfAllVariants(variants, i + 1,
             IF variants[i].item = 0 THEN ids
             ELSE Append(ids, variants[i].item))

\* [...new Set(variants.map((v) => v.inventoryItem?.id).filter(Boolean))]
RECURSIVE Ids(_, _, _)
Ids(variants, i, ids) ==
    IF i > Len(variants) THEN ids
    ELSE Ids(variants, i + 1,
             IF variants[i].item = 0 \/ variants[i].item \in Range(ids) THEN ids
             ELSE Append(ids, variants[i].item))

\* for (let i = 0; i < ids.length; i += 10): ids.slice(i, i + 10)
BatchWidth == 10

Batch(ids, i) ==
    SubSeq(ids, i + 1, IF i + BatchWidth < Len(ids) THEN i + BatchWidth ELSE Len(ids))

\* the period of the report: the whole calendar
ReportStart == DayString(Cutoff)

ReportEnd == DayString(MaxDay)

HistoryNode(day, time, available) ==
    [occurredAt |-> [day |-> day, time |-> time], availableAfterAdjustment |-> available]

\* the history of an item: none, or two adjustments on the first day and
\* one on the last
Histories ==
    {<<>>, <<HistoryNode(Cutoff, 1, 0), HistoryNode(Cutoff, 2, 2), HistoryNode(MaxDay, 1, 0)>>}

\* the responses to the history request of an item
HistoryResponses(hist) ==
    {[ok |-> TRUE, body |-> "data", data |-> hist],
     [ok |-> FALSE, body |-> "errors", data |-> <<>>]}

Logged(to, arg, response) ==
    [to |-> to, arg |-> arg, ok |-> response.ok, body |-> response.body]

\* res.status(500).json({ ok: false, error: err.message || String(err) })
ErrorResponse(message) ==
    [status |-> 500, body |-> [ok |-> FALSE, error |-> message]]

\* res.status(200).json({ ok: true, ..., items: metrics })
ReportResponse(metrics) ==
    [status |-> 200, body |-> [ok |-> TRUE, items |-> metrics]]

(***************************************************************************)
(* One run of the handler.  An action is a request, its response, and the  *)
(* code that runs until the next request is sent or the caller is answered.*)
(* The history requests of one batch are sent together; their responses    *)
(* arrive one by one, in any order, and the loop goes on when every task   *)
(* of the batch has finished.                                              *)
(***************************************************************************)
ReportInit ==
    /\ SkuIdle
    /\ EngIdle
    /\ FetchIdle
    /\ RestIdle
    /\ SellIdle
    /\ BatchIdle
    /\ LinkIdle
    /\ RunIdle
    /\ hPc = "variants"
    /\ hCatalog \in SeqsUpTo(ProductKinds, MaxProducts)
    /\ hSales \in SeqsUpTo(OrderKinds, MaxOrders)
    /\ hHistory \in Histories
    /\ hFirst \in 1..MaxFirst
    /\ hCursor = 0
    /\ hVariants = <<>>
    /\ hBatchAt = 0
    /\ hInFlight = {}
    /\ hInventoryByItem = <<>>
    /\ hOrders = <<>>
    /\ hRequests = <<>>
    /\ hResponses = <<>>

repInputs == <<hCatalog, hSales, hHistory, hFirst>>

\* catch (err): the only response of the run
Abort(message) ==
    /\ hResponses' = Append(hResponses, ErrorResponse(message))
    /\ hPc' = "responded"

\* a page of products arrives: const variants = await fetchAllVariants()
VariantsPage ==
    /\ hPc = "variants"
    /\ \E response \in Responses(ServePage(NodesOf("fetchAllVariants", hCatalog),
                                           hCursor, hFirst)) :
          LET r  == shopifyGraphQL(response)
              st == fetchAllVariantsStep(hCursor, hVariants, r.data)
          IN  /\ ~r.threw
              /\ hRequests' = Append(hRequests, Logged("products", hCursor, response))
              /\ hVariants' = st.out
              /\ CASE st.pc = "loop" ->
                        /\ hCursor' = st.cursor
                        /\ hPc' = "variants"
                        /\ UNCHANGED hResponses
                   [] st.pc = "returned" ->
                        /\ hCursor' = 0
                        /\ hPc' = IF Ids(st.out, 1, <<>>) = <<>> THEN "orders" ELSE "history"
                        /\ UNCHANGED hResponses
                   [] st.pc = "threw" ->
                        /\ hCursor' = st.cursor
                        /\ Abort("TypeError")
    /\ UNCHANGED <<repInputs, hBatchAt, hInFlight, hInventoryByItem, hOrders,
                   skuVars, engVars, fetchVars,
                   restVars, sellVars,
                   batchVars, linkVars, runVars>>

\* the request for a page of products fails: shopifyGraphQL throws
VariantsFails ==
    /\ hPc = "variants"
    /\ \E response \in Responses(ServePage(NodesOf("fetchAllVariants", hCatalog),
                                           hCursor, hFirst)) :
          LET r == shopifyGraphQL(response)
          IN  /\ r.threw
              /\ hRequests' = Append(hRequests, Logged("products", hCursor, response))
              /\ Abort(r.message)
    /\ UNCHANGED <<repInputs, hCursor, hVariants, hBatchAt, hInFlight,
                   hInventoryByItem, hOrders,
                   skuVars, engVars, fetchVars,
                   restVars, sellVars,
                   batchVars, linkVars, runVars>>

\* a history request that has been sent and not answered yet
Pending(id) == [to |-> "history", arg |-> id, ok |-> FALSE, body |-> "pending"]

\* the loop test holds: batch.map(async (id) => ...) calls every task of the
\* batch, and each task runs up to its request
HistoryBatch ==
    /\ hPc = "history"
    /\ LET batch == Batch(Ids(hVariants, 1, <<>>), hBatchAt)
       IN  /\ hRequests' = hRequests \o [k \in 1..Len(batch) |-> Pending(batch[k])]
           /\ hInFlight' = Range(batch)
    /\ hPc' = "awaiting"
    /\ UNCHANGED <<repInputs, hCursor, hVariants, hBatchAt, hInventoryByItem, hOrders,
                   hResponses,
                   skuVars, engVars, fetchVars,
                   restVars, sellVars,
                   batchVars, linkVars, runVars>>

\* the response of one task arrives: try { inventoryByItem[id] = await ... }
\* catch (err) { inventoryByItem[id] = [] }
HistorySettles ==
    /\ hPc = "awaiting"
    /\ \E id \in hInFlight : \E response \in HistoryResponses(hHistory) :
          LET r == shopifyGraphQL(response)
          IN  /\ hRequests' =
                     [k \in 1..Len(hRequests) |->
                         IF hRequests[k] = Pending(id)
                         THEN Logged("history", id, response) ELSE hRequests[k]]
              /\ hInventoryByItem' =
                     Put(hInventoryByItem, id,
                         IF r.threw THEN <<>> ELSE fetchInventoryDailyForItem(r.data))
              /\ hInFlight' = hInFlight \ {id}
    /\ UNCHANGED <<repInputs, hPc, hCursor, hVariants, hBatchAt, hOrders, hResponses,
                   skuVars, engVars, fetchVars,
                   restVars, sellVars,
                   batchVars, linkVars, runVars>>

\* await Promise.all(...) returns when every task of the batch has
\* finished: i += 10, and the loop test again
HistoryJoins ==
    /\ hPc = "awaiting"
    /\ hInFlight = {}
    /\ hBatchAt' = hBatchAt + BatchWidth
    /\ hPc' = IF hBatchAt + BatchWidth < Len(Ids(hVariants, 1, <<>>))
              THEN "history" ELSE "orders"
    /\ UNCHANGED <<repInputs, hCursor, hVariants, hInFlight, hInventoryByItem, hOrders,
                   hRequests, hResponses,
                   skuVars, engVars, fetchVars,
                   restVars, sellVars,
                   batchVars, linkVars, runVars>>

\* a page of orders arrives: const orders = await fetchOrders(startISO); after
\* the last page the metrics are computed and the report is sent
OrdersPage ==
    /\ hPc = "orders"
    /\ \E response \in Responses(ServePage(NodesOf("fetchOrders", hSales),
                                           hCursor, hFirst)) :
          LET r  == shopifyGraphQL(response)
              st == fetchOrdersStep(hCursor, hOrders, r.data)
          IN  /\ ~r.threw
              /\ hRequests' = Append(hRequests, Logged("orders", hCursor, response))
              /\ hOrders' = st.out
              /\ hCursor' = st.cursor
              /\ CASE st.pc = "loop" ->
                        /\ hPc' = "orders"
                        /\ UNCHANGED hResponses
                   [] st.pc = "returned" ->
                        /\ hResponses' = Append(hResponses,
                               ReportResponse(computeMetrics(hVariants, hInventoryByItem,
                                                  st.out, ReportStart, ReportEnd)))
                        /\ hPc' = "responded"
                   [] st.pc = "threw" ->
                        Abort("TypeError")
    /\ UNCHANGED <<repInputs, hVariants, hBatchAt, hInFlight, hInventoryByItem,
                   skuVars, engVars, fetchVars,
                   restVars, sellVars,
                   batchVars, linkVars, runVars>>

\* the request for a page of orders fails: shopifyGraphQL throws
OrdersFails ==
    /\ hPc = "orders"
    /\ \E response \in Responses(ServePage(NodesOf("fetchOrders", hSales),
                                           hCursor, hFirst)) :
          LET r == shopifyGraphQL(response)
          IN  /\ r.threw
              /\ hRequests' = Append(hRequests, Logged("orders", hCursor, response))
              /\ Abort(r.message)
    /\ UNCHANGED <<repInputs, hCursor, hVariants, hBatchAt, hInFlight,
                   hInventoryByItem, hOrders,
                   skuVars, engVars, fetchVars,
                   restVars, sellVars,
                   batchVars, linkVars, runVars>>

ReportNext ==
    \/ VariantsPage
    \/ VariantsFails
    \/ HistoryBatch
    \/ HistorySettles
    \/ HistoryJoins
    \/ OrdersPage
    \/ OrdersFails

SpecReport == ReportInit /\ [][ReportNext]_vars

(***************************************************************************)
(* C10: when a request of the catalog fetch or of the orders fetch gets a  *)
(* response that makes shopifyGraphQL throw (a non-success status among    *)
(* them), the report is aborted: that request is the last one sent (none   *)
(* follows, and it is not sent again), and the caller gets exactly one     *)
(* response, { ok: false, error: <message> }, without items.               *)
(***************************************************************************)
Rejected(req) == ~req.ok \/ req.body # "data"

C10_TopLevelFailureAborts ==
    \A i \in 1..Len(hRequests) :
        hRequests[i].to \in {"products", "orders"} /\ Rejected(hRequests[i]) =>
            /\ i = Len(hRequests)
            /\ hPc = "responded"
            /\ Len(hResponses) = 1
            /\ hResponses[1].status = 500
            /\ DOMAIN hResponses[1].body = {"ok", "error"}
            /\ hResponses[1].body.ok = FALSE
            /\ hResponses[1].body.error =
                  IF hRequests[i].body = "text" THEN "Invalid JSON from Shopify"
                  ELSE "Shopify GraphQL error"

C10_Witness ==
    /\ hPc = "responded"
    /\ Len(hRequests) >= 4
    /\ LET last == hRequests[Len(hRequests)]
       IN  /\ last.to = "orders"
           /\ ~last.ok
           /\ last.arg # 0
    /\ \E i \in 1..Len(hRequests) : hRequests[i].to = "history" /\ hRequests[i].ok


(***************************************************************************)
(* part_002 and part_004: the REST fetchers.  A response is [ok, json];    *)
(* the JSON body of a page is [records, link], where link stands for       *)
(* json.headers?.link: absent, or a string with the pointers of a Link     *)
(* header, rel="previous" first and rel="next" second, each with its       *)
(* page_info token (0: no such pointer).  A page_info token is the index   *)
(* of the first record of the page it names; 0 stands for null.            *)
(***************************************************************************)
RestThrew(message) == [threw |-> TRUE, message |-> message, json |-> <<>>]

\* if (!res.ok) throw new Error(...); return res.json()
shopifyGET(part, response) ==
    IF ~response.ok
    THEN RestThrew(IF part = "part_002" THEN "Shopify REST error" ELSE "REST")
    ELSE [threw |-> FALSE, message |-> "", json |-> response.json]

Link(prev, next) == [present |-> TRUE, prev |-> prev, next |-> next]

NoLink == [present |-> FALSE, prev |-> 0, next |-> 0]

\* the page that the upstream serves for a page_info token; a Link header is
\* sent when there is another page before or after this one
RestPage(records, pageInfo, limit, linkInBody) ==
    LET start == IF pageInfo = 0 THEN 1 ELSE pageInfo
        last  == IF start + limit - 1 < Len(records)
                 THEN start + limit - 1 ELSE Len(records)
        prev  == IF start <= 1 THEN 0
                 ELSE IF start - limit < 1 THEN 1 ELSE start - limit
        next  == IF start + limit <= Len(records) THEN start + limit ELSE 0
    IN  [records |-> SubSeq(records, start, last),
         link    |-> IF linkInBody /\ (prev # 0 \/ next # 0)
                     THEN Link(prev, next) ELSE NoLink]

\* the responses the upstream can give to a request whose JSON is `json`
RestResponses(json) ==
    {[ok |-> TRUE, json |-> json], [ok |-> FALSE, json |-> <<>>]}

\* link.includes('rel="next"')
IncludesRelNext(link) == link.present /\ link.next # 0

\* link.match(/page_info=([^&>]+)/)[1]: the first page_info of the string
MatchPageInfo(link) == IF link.prev # 0 THEN link.prev ELSE link.next

\* for (const v of p.variants || []) if (v.sku && v.inventory_item_id) variants.push(...)
RECURSIVE PushRestVariants(_, _, _)
PushRestVariants(vs, i, variants) ==
    IF i > Len(vs) THEN variants
    ELSE PushRestVariants(vs, i + 1,
             IF vs[i].sku # <<>> /\ vs[i].inventory_item_id # 0
             THEN Append(variants,
                         Variant(vs[i].id, vs[i].sku, vs[i].inventory_item_id))
             ELSE variants)

\* for (const p of json.products || [])
RECURSIVE VariantsOfProducts(_, _, _)
VariantsOfProducts(products, i, variants) ==
    IF i > Len(products) THEN variants
    ELSE VariantsOfProducts(products, i + 1,
             PushRestVariants(products[i].variants, 1, variants))

\* part_002, one turn of the loop of fetchAllVariants: the link is read as
\* json.headers?.link || res.headers?.get("link"), and res is not declared
\* in the function
fetchAllVariants002Step(pageInfo, variants, json) ==
    LET out == VariantsOfProducts(json.records, 1, variants)
    IN  IF ~json.link.present
        THEN [pc |-> "threw", pageInfo |-> pageInfo, out |-> out]
        ELSE IF ~IncludesRelNext(json.link)
        THEN [pc |-> "returned", pageInfo |-> pageInfo, out |-> out]
        ELSE [pc |-> "loop", pageInfo |-> MatchPageInfo(json.link), out |-> out]

\* part_004, one turn of the loop of fetchVariants: json.headers?.link || ""
fetchVariants004Step(cursor, variants, json) ==
    LET out == VariantsOfProducts(json.records, 1, variants)
    IN  IF ~IncludesRelNext(json.link)
        THEN [pc |-> "returned", pageInfo |-> cursor, out |-> out]
        ELSE [pc |-> "loop", pageInfo |-> MatchPageInfo(json.link), out |-> out]

\* for (const li of o.line_items || []) { if (!li.sku) continue; output.push(...) }
RECURSIVE PushLines(_, _, _, _)
PushLines(date, lis, i, output) ==
    IF i > Len(lis) THEN output
    ELSE PushLines(date, lis, i + 1,
             IF lis[i].sku = <<>> THEN output
             ELSE Append(output,
                         [date |-> date, sku |-> lis[i].sku, qty |-> lis[i].quantity]))

\* for (const o of json.orders || [])
RECURSIVE LinesOfOrders(_, _, _)
LinesOfOrders(orders, i, output) ==
    IF i > Len(orders) THEN output
    ELSE LinesOfOrders(orders, i + 1,
             PushLines(orders[i].created_at, orders[i].line_items, 1, output))

\* one turn of the loop of fetchOrders, the same in part_002 and part_004
fetchOrdersRestStep(pageInfo, output, json) ==
    LET out == LinesOfOrders(json.records, 1, output)
    IN  IF ~IncludesRelNext(json.link)
        THEN [pc |-> "returned", pageInfo |-> pageInfo, out |-> out]
        ELSE [pc |-> "loop", pageInfo |-> MatchPageInfo(json.link), out |-> out]

\* part_002, fetchAdjustments after its second request: the adjustments of
\* the only page, as {date: adj.performed_at.slice(0, 10), delta: adj.quantity}
AdjustmentsOf(json) ==
    [k \in 1..Len(json.records) |->
        [date |-> json.records[k].performed_at, delta |-> json.records[k].quantity]]

\* part_004, fetchCurrentLevel after its request
fetchCurrentLevel(json) ==
    IF json.inventory_levels = <<>> THEN 0
    ELSE json.inventory_levels[1].available

\* part_004, the handler: salesMap[o.date] = (salesMap[o.date] || 0) + o.qty
\* for the orders with o.sku === v.sku
RECURSIVE SalesMapOf(_, _, _, _)
SalesMapOf(orders, i, sku, salesMap) ==
    IF i > Len(orders) THEN salesMap
    ELSE SalesMapOf(orders, i + 1, sku,
             IF orders[i].sku = sku
             THEN Put(salesMap, orders[i].date, OrZero(salesMap, orders[i].date) + orders[i].qty)
             ELSE salesMap)

\* part_004, the handler: the row of one variant
Row004(v, orders, finalQty) ==
    LET salesMap  == SalesMapOf(orders, 1, v.sku, <<>>)
        inventory == reconstructDailyInventory(ReportStart, ReportEnd, finalQty, salesMap)
    IN  RowOf(v.sku, calculateMetrics004(inventory, salesMap))

(***************************************************************************)
(* The upstream of a run of part_002 or part_004.  Product i has one       *)
(* variant, with id i and inventory item i; its SKU is the digit of i, the *)
(* SKU of product 1 ("same"), or empty ("nosku").  Order i was created on  *)
(* day CreatedAt(i); its line items carry the SKU of product 1, as it is   *)
(* ("plain"), as it is and with the suffix -# ("both"), or no SKU.         *)
(***************************************************************************)
RestProductKinds == {"plain", "same", "nosku"}

RestProduct(i, kind) ==
    [variants |-> <<[id  |-> i,
                     sku |-> CASE kind = "plain" -> <<ToString(i)>>
                               [] kind = "same"  -> <<ToString(1)>>
                               [] kind = "nosku" -> <<>>,
                     inventory_item_id |-> i]>>]

RestOrderKinds == {"plain", "both", "nosku"}

RestLine(sku, quantity) == [sku |-> sku, quantity |-> quantity]

RestOrder(i, kind) ==
    [created_at |-> CreatedAt(i),
     line_items |-> CASE kind = "plain" -> <<RestLine(<<ToString(1)>>, 1)>>
                      [] kind = "both"  -> <<RestLine(<<ToString(1)>>, 1),
                                             RestLine(<<ToString(1), "-", "#">>, 2)>>
                      [] kind = "nosku" -> <<RestLine(<<>>, 1)>>]

RestProducts(kinds) == [i \in 1..Len(kinds) |-> RestProduct(i, kinds[i])]

RestOrders(kinds) == [i \in 1..Len(kinds) |-> RestOrder(i, kinds[i])]

\* the stock of item 1 at the upstream: no inventory_levels entry, a level
\* without stock and without adjustments, or a level with stock; every
\* other item has a level with stock
RestStocks == {"nolevels", "empty", "stocked"}

StockOf(item, stock) == IF item = 1 THEN stock ELSE "stocked"

\* GET inventory_items/{id}/inventory_levels and GET inventory_levels
LevelsJson(stock) ==
    [inventory_levels |->
        CASE stock = "nolevels" -> <<>>
          [] stock = "empty"    -> <<[location_id |-> 1, available |-> 0]>>
          [] stock = "stocked"  -> <<[location_id |-> 1, available |-> 2]>>]

\* GET inventory_items/{id}/inventory_levels/adjustments: one page
AdjustmentsJson(stock) ==
    [records |-> IF stock = "stocked"
                 THEN <<[performed_at |-> Cutoff, quantity |-> 2]>> ELSE <<>>,
     link    |-> NoLink]

RestLogged(to, arg, response) == [to |-> to, arg |-> arg, ok |-> response.ok]

(***************************************************************************)
(* One run of the handler of part_002 or of part_004, with the store       *)
(* domain and the token set.  An action is a request, its response, and    *)
(* the code that runs until the next request is sent or the caller is      *)
(* answered.  A fetcher whose upstream keeps naming another page sends     *)
(* requests without end; the run is followed for MaxRequests requests.     *)
(***************************************************************************)
RestInit ==
    /\ SkuIdle
    /\ EngIdle
    /\ FetchIdle
    /\ RepIdle
    /\ SellIdle
    /\ BatchIdle
    /\ LinkIdle
    /\ RunIdle
    /\ rPc = "variants"
    /\ rPart \in {"part_002", "part_004"}
    /\ rCatalog \in SeqsUpTo(RestProductKinds, MaxProducts)
    /\ rLimit \in {1, MaxProducts}
    /\ rLinkInBody \in BOOLEAN
    /\ rStock \in RestStocks
    /\ rSales \in SeqsUpTo(RestOrderKinds, MaxOrders)
    /\ rPageInfo = 0
    /\ rVariants = <<>>
    /\ rAt = 1
    /\ rInvMapByItem = <<>>
    /\ rOrders = <<>>
    /\ rOutput = <<>>
    /\ rRequests = <<>>
    /\ rResponses = <<>>

restInputs == <<rPart, rCatalog, rLimit, rLinkInBody, rStock, rSales>>

\* catch (err): res.status(500).json({ ok: false, error: err.message })
RestAbort(message) ==
    /\ rResponses' = Append(rResponses, ErrorResponse(message))
    /\ rPc' = "responded"

\* res.status(200).json({ ok: true, ..., items })
RestRespond(items) ==
    /\ rResponses' = Append(rResponses, ReportResponse(items))
    /\ rPc' = "responded"

\* where the handler goes when the sub-fetch of variant `at` is done
AfterSubFetch(part, at, variants) ==
    IF at < Len(variants)
    THEN IF part = "part_002" THEN "levels" ELSE "level"
    ELSE IF part = "part_002" THEN "orders" ELSE "responded"

\* a page of products arrives: await fetchAllVariants() / await fetchVariants()
RestVariantsPage ==
    /\ rPc = "variants"
    /\ Len(rRequests) < MaxRequests
    /\ \E response \in RestResponses(RestPage(RestProducts(rCatalog), rPageInfo,
                                              rLimit, rLinkInBody)) :
          LET r  == shopifyGET(rPart, response)
              st == IF rPart = "part_002"
                    THEN fetchAllVariants002Step(rPageInfo, rVariants, r.json)
                    ELSE fetchVariants004Step(rPageInfo, rVariants, r.json)
          IN  /\ rRequests' = Append(rRequests, RestLogged("products", rPageInfo, response))
              /\ IF r.threw
                 THEN /\ RestAbort(r.message)
                      /\ UNCHANGED <<rVariants, rPageInfo>>
                 ELSE /\ rVariants' = st.out
                      /\ CASE st.pc = "loop" ->
                                /\ rPageInfo' = st.pageInfo
                                /\ UNCHANGED <<rPc, rResponses>>
                           [] st.pc = "threw" ->
                                /\ RestAbort("res is not defined")
                                /\ UNCHANGED rPageInfo
                           [] st.pc = "returned" ->
                                /\ rPageInfo' = 0
                                /\ UNCHANGED rResponses
                                /\ rPc' = IF rPart = "part_004" THEN "orders"
                                          ELSE IF st.out = <<>> THEN "orders"
                                          ELSE "levels"
    /\ UNCHANGED <<restInputs, rAt, rInvMapByItem, rOrders, rOutput,
                   skuVars, engVars, fetchVars, repVars, sellVars,
                   batchVars, linkVars, runVars>>

\* part_002, fetchAdjustments, first request: the inventory_levels of the item
RestLevels ==
    /\ rPc = "levels"
    /\ Len(rRequests) < MaxRequests
    /\ LET v == rVariants[rAt]
       IN  \E response \in RestResponses(LevelsJson(StockOf(v.item, rStock))) :
              LET r == shopifyGET(rPart, response)
              IN  /\ rRequests' = Append(rRequests, RestLogged("inventory_levels", v.item, response))
                  /\ IF r.threw
                     THEN /\ RestAbort(r.message)
                          /\ UNCHANGED <<rAt, rInvMapByItem>>
                     ELSE IF r.json.inventory_levels = <<>>
                     THEN /\ rInvMapByItem' = Put(rInvMapByItem, v.item,
                                 reconstructDailyLevels002(ReportStart, ReportEnd, <<>>))
                          /\ rAt' = rAt + 1
                          /\ rPc' = AfterSubFetch(rPart, rAt, rVariants)
                          /\ UNCHANGED rResponses
                     ELSE /\ rPc' = "adjustments"
                          /\ UNCHANGED <<rAt, rInvMapByItem, rResponses>>
    /\ UNCHANGED <<restInputs, rPageInfo, rVariants, rOrders, rOutput,
                   skuVars, engVars, fetchVars, repVars, sellVars,
                   batchVars, linkVars, runVars>>

\* part_002, fetchAdjustments, second request, and reconstructDailyLevels
RestAdjustments ==
    /\ rPc = "adjustments"
    /\ Len(rRequests) < MaxRequests
    /\ LET v == rVariants[rAt]
       IN  \E response \in RestResponses(AdjustmentsJson(StockOf(v.item, rStock))) :
              LET r == shopifyGET(rPart, response)
              IN  /\ rRequests' = Append(rRequests, RestLogged("adjustments", v.item, response))
                  /\ IF r.threw
                     THEN /\ RestAbort(r.message)
                          /\ UNCHANGED <<rAt, rInvMapByItem>>
                     ELSE /\ rInvMapByItem' = Put(rInvMapByItem, v.item,
                                 reconstructDailyLevels002(ReportStart, ReportEnd,
                                                           AdjustmentsOf(r.json)))
                          /\ rAt' = rAt + 1
                          /\ rPc' = AfterSubFetch(rPart, rAt, rVariants)
                          /\ UNCHANGED rResponses
    /\ UNCHANGED <<restInputs, rPageInfo, rVariants, rOrders, rOutput,
                   skuVars, engVars, fetchVars, repVars, sellVars,
                   batchVars, linkVars, runVars>>

\* a page of orders arrives: await fetchOrders(startDay, endDay); in part_002
\* the metrics are computed and the report is sent after the last page, in
\* part_004 the loop over the variants follows
RestOrdersPage ==
    /\ rPc = "orders"
    /\ Len(rRequests) < MaxRequests
    /\ \E response \in RestResponses(RestPage(RestOrders(rSales), rPageInfo,
                                              rLimit, rLinkInBody)) :
          LET r  == shopifyGET(rPart, response)
              st == fetchOrdersRestStep(rPageInfo, rOrders, r.json)
          IN  /\ rRequests' = Append(rRequests, RestLogged("orders", rPageInfo, response))
              /\ IF r.threw
                 THEN /\ RestAbort(r.message)
                      /\ UNCHANGED <<rOrders, rPageInfo, rOutput>>
                 ELSE /\ rOrders' = st.out
                      /\ rPageInfo' = st.pageInfo
                      /\ IF st.pc = "loop"
                         THEN UNCHANGED <<rPc, rResponses, rOutput>>
                         ELSE IF rPart = "part_002"
                         THEN LET results == calculateMetrics002(rVariants, rInvMapByItem,
                                                 st.out, ReportStart, ReportEnd)
                              IN  /\ rOutput' = results
                                  /\ RestRespond(results)
                         ELSE IF rVariants = <<>>
                         THEN /\ RestRespond(<<>>)
                              /\ UNCHANGED rOutput
                         ELSE /\ rPc' = "level"
                              /\ UNCHANGED <<rResponses, rOutput>>
    /\ UNCHANGED <<restInputs, rVariants, rAt, rInvMapByItem,
                   skuVars, engVars, fetchVars, repVars, sellVars,
                   batchVars, linkVars, runVars>>

\* part_004, one turn of for (const v of variants): fetchCurrentLevel, the
\* reconstruction and the metrics of the variant; after the last variant the
\* report is sent
RestLevel ==
    /\ rPc = "level"
    /\ Len(rRequests) < MaxRequests
    /\ LET v == rVariants[rAt]
       IN  \E response \in RestResponses(LevelsJson(StockOf(v.item, rStock))) :
              LET r == shopifyGET(rPart, response)
              IN  /\ rRequests' = Append(rRequests, RestLogged("inventory_levels", v.item, response))
                  /\ IF r.threw
                     THEN /\ RestAbort(r.message)
                          /\ UNCHANGED <<rAt, rOutput>>
                     ELSE LET output == Assign(rOutput, v.sku,
                                            Row004(v, rOrders, fetchCurrentLevel(r.json)))
                          IN  /\ rOutput' = output
                              /\ rAt' = rAt + 1
                              /\ IF rAt < Len(rVariants)
                                 THEN UNCHANGED <<rPc, rResponses>>
                                 ELSE RestRespond(output)
    /\ UNCHANGED <<restInputs, rPageInfo, rVariants, rInvMapByItem, rOrders,
                   skuVars, engVars, fetchVars, repVars, sellVars,
                   batchVars, linkVars, runVars>>

RestNext ==
    \/ RestVariantsPage
    \/ RestLevels
    \/ RestAdjustments
    \/ RestOrdersPage
    \/ RestLevel

SpecRest == RestInit /\ [][RestNext]_vars

(***************************************************************************)
(* Reference values of a run of a REST handler.                            *)
(***************************************************************************)
SubFetches == {"inventory_levels", "adjustments"}

\* a request of the per-item sub-fetch got a failure status
SubFetchFailed ==
    \E k \in 1..Len(rRequests) : rRequests[k].to \in SubFetches /\ ~rRequests[k].ok

\* every request for a page of the catalog or of the orders succeeded
TopLevelSucceeded ==
    \A k \in 1..Len(rRequests) : rRequests[k].to \notin SubFetches => rRequests[k].ok

\* the SKUs of the variants the catalog fetch returned
RestSkus == {rVariants[i].sku : i \in 1..Len(rVariants)}

\* C11: in the handlers of part_002 and part_004, a run in which a per-item
\* sub-fetch failed, and no request of the catalog or of the orders did, is
\* answered with ok: true and a row for every SKU.
C11_SubFetchFailureRecovered ==
    (rPc = "responded" /\ SubFetchFailed /\ TopLevelSucceeded)
        => /\ rResponses[1].body.ok
           /\ DOMAIN rResponses[1].body.items = RestSkus

(***************************************************************************)
(* sell-through.js, parseCsv.  The text is a sequence of characters, a     *)
(* field a sequence of characters, a row a sequence of fields.  The state  *)
(* of the loop is [i, rows, row, field, inQuotes], with i counted from 1.  *)
(***************************************************************************)
Quote == "\""

\* text[i], undefined past the end
CharAt(text, i) == IF i <= Len(text) THEN text[i] ELSE "undefined"

\* mutant: a doubled quote is not taken as an escaped quote
CsvStepNoEscape(st, c, next) ==
    IF c = Quote
    THEN [st EXCEPT !.inQuotes = ~st.inQuotes, !.i = st.i + 1]
    ELSE IF c = "," /\ ~st.inQuotes
    THEN [st EXCEPT !.row = Append(st.row, st.field), !.field = <<>>, !.i = st.i + 1]
    ELSE IF (c = "\n" \/ c = "\r") /\ ~st.inQuotes
    THEN LET flushed == IF st.field # <<>> \/ Len(st.row) > 0
                        THEN [st EXCEPT !.rows = Append(st.rows, Append(st.row, st.field)),
                                        !.row = <<>>, !.field = <<>>]
                        ELSE st
         IN  [flushed EXCEPT !.i = IF c = "\r" /\ next = "\n" THEN st.i + 2 ELSE st.i + 1]
    ELSE [st EXCEPT !.field = Append(st.field, c), !.i = st.i + 1]

\* mutant: only "\n" ends a row
CsvStepLfOnly(st, c, next) ==
    IF c = Quote /\ st.inQuotes /\ next = Quote
    THEN [st EXCEPT !.field = Append(st.field, Quote), !.i = st.i + 2]
    ELSE IF c = Quote
    THEN [st EXCEPT !.inQuotes = ~st.inQuotes, !.i = st.i + 1]
    ELSE IF c = "," /\ ~st.inQuotes
    THEN [st EXCEPT !.row = Append(st.row, st.field), !.field = <<>>, !.i = st.i + 1]
    ELSE IF c = "\n" /\ ~st.inQuotes
    THEN LET flushed == IF st.field # <<>> \/ Len(st.row) > 0
                        THEN [st EXCEPT !.rows = Append(st.rows, Append(st.row, st.field)),
                                        !.row = <<>>, !.field = <<>>]
                        ELSE st
         IN  [flushed EXCEPT !.i = st.i + 1]
    ELSE [st EXCEPT !.field = Append(st.field, c), !.i = st.i + 1]

\* the body of for (let i = 0; i < text.length; i++), with the i++ of the loop
CsvStep(st, c, next) ==
    IF c = Quote /\ st.inQuotes /\ next = Quote
    THEN [st EXCEPT !.field = Append(st.field, Quote), !.i = st.i + 2]
    ELSE IF c = Quote
    THEN [st EXCEPT !.inQuotes = ~st.inQuotes, !.i = st.i + 1]
    ELSE IF c = "," /\ ~st.inQuotes
    THEN [st EXCEPT !.row = Append(st.row, st.field), !.field = <<>>, !.i = st.i + 1]
    ELSE IF (c = "\n" \/ c = "\r") /\ ~st.inQuotes
    THEN LET flushed == IF st.field # <<>> \/ Len(st.row) > 0
                        THEN [st EXCEPT !.rows = Append(st.rows, Append(st.row, st.field)),
                                        !.row = <<>>, !.field = <<>>]
                        ELSE st
         IN  [flushed EXCEPT !.i = IF c = "\r" /\ next = "\n" THEN st.i + 2 ELSE st.i + 1]
    ELSE [st EXCEPT !.field = Append(st.field, c), !.i = st.i + 1]

RECURSIVE CsvLoop(_, _)
CsvLoop(text, st) ==
    IF st.i > Len(text) THEN st
    ELSE CsvLoop(text, CsvStep(st, CharAt(text, st.i), CharAt(text, st.i + 1)))

parseCsv(text) ==
    LET st == CsvLoop(text, [i |-> 1, rows |-> <<>>, row |-> <<>>, field |-> <<>>,
                             inQuotes |-> FALSE])
    IN  IF st.field # <<>> \/ Len(st.row) > 0
        THEN Append(st.rows, Append(st.row, st.field))
        ELSE st.rows

(***************************************************************************)
(* Inputs of the parser: every text over a small alphabet up to MaxCsvLen  *)
(* characters, and quoted fields written from every content up to          *)
(* MaxContentLen characters, alone and followed by a second field.         *)
(***************************************************************************)
CsvAlphabet == {"a", ",", Quote, "\n", "\r"}

RECURSIVE TextsUpTo(_, _)
TextsUpTo(alphabet, n) ==
    IF n = 0 THEN {<<>>}
    ELSE LET shorter == TextsUpTo(alphabet, n - 1)
         IN  shorter \cup {Append(t, c) : t \in {u \in shorter : Len(u) = n - 1},
                                          c \in alphabet}

Contents == TextsUpTo({"a", ",", Quote, "\n"}, MaxContentLen)

\* a content written as a quoted field: every quote doubled, quotes around
RECURSIVE Doubled(_)
Doubled(content) ==
    IF content = <<>> THEN <<>>
    ELSE (IF Head(content) = Quote THEN <<Quote, Quote>> ELSE <<Head(content)>>)
         \o Doubled(Tail(content))

Quoted(content) == <<Quote>> \o Doubled(content) \o <<Quote>>

SecondField == <<",", "b">>

\* the documented example: "a,b""c"
ExContent == <<"a", ",", "b", Quote, "c">>

\* the three line endings
LineEndings == {<<"\r", "\n">>, <<"\n">>, <<"\r">>}

\* tables of unquoted fields: a row has one field that is not empty, or two
\* fields
TableRows == {<<<<"a">>>>, <<<<"a">>, <<"b">>>>, <<<<>>, <<"b">>>>, <<<<"a">>, <<>>>>}

Tables == SeqsUpTo(TableRows, MaxTableRows)

RECURSIVE WriteRow(_)
WriteRow(row) ==
    IF Len(row) = 1 THEN Head(row)
    ELSE Head(row) \o <<",">> \o WriteRow(Tail(row))

\* the table as text: the rows separated by the line ending, with or
\* without a blank line after each separator, with or without a line
\* ending after the last row
RECURSIVE WriteTable(_, _, _, _)
WriteTable(table, eol, blank, trailing) ==
    IF table = <<>> THEN (IF blank THEN eol ELSE <<>>)
    ELSE IF Len(table) = 1
    THEN WriteRow(Head(table)) \o (IF trailing THEN eol ELSE <<>>)
    ELSE WriteRow(Head(table)) \o eol \o (IF blank THEN eol ELSE <<>>)
         \o WriteTable(Tail(table), eol, blank, trailing)

TableTexts ==
    {WriteTable(t, eol, blank, trailing) :
        t \in Tables, eol \in LineEndings, blank \in BOOLEAN, trailing \in BOOLEAN}

CsvTexts ==
    TextsUpTo(CsvAlphabet, MaxCsvLen)
        \cup {Quoted(c) : c \in Contents \cup {ExContent}}
        \cup {Quoted(c) \o SecondField : c \in Contents}
        \cup TableTexts

(***************************************************************************)
(* Natural numbers of any size, for the arithmetic of doubles: a number is *)
(* the sequence of its digits in base 2^15, the least significant first    *)
(* and the most significant not 0; 0 is the empty sequence.                *)
(***************************************************************************)
LimbBits == 15

Base == 2^LimbBits

Limb(a, i) == IF i >= 1 /\ i <= Len(a) THEN a[i] ELSE 0

\* a without its leading digits 0
BTrim(a) ==
    IF a = <<>> \/ a[Len(a)] # 0 THEN SubSeq(a, 1, Len(a))
    ELSE LET used == {i \in 1..Len(a) : a[i] # 0}
         IN  IF used = {} THEN <<>>
             ELSE SubSeq(a, 1, CHOOSE i \in used : \A j \in used : j <= i)

RECURSIVE BOfInt(_)
BOfInt(n) == IF n = 0 THEN <<>> ELSE <<n % Base>> \o BOfInt(n \div Base)

\* -1, 0 or 1 as a is less than, equal to or greater than b
BCmp(a, b) ==
    IF Len(a) # Len(b) THEN (IF Len(a) < Len(b) THEN -1 ELSE 1)
    ELSE IF a = b THEN 0
    ELSE LET i == CHOOSE k \in 1..Len(a) :
                      a[k] # b[k] /\ \A j \in (k + 1)..Len(a) : a[j] = b[j]
         IN  IF a[i] < b[i] THEN -1 ELSE 1

\* a + b: a digit takes a carry when a lower digit sum has one to give and
\* every digit sum between hands it on
BAdd(a, b) ==
    LET n == IF Len(a) < Len(b) THEN Len(b) ELSE Len(a)
        s == [i \in 1..(n + 1) |-> Limb(a, i) + Limb(b, i)]
        Carry(i) == \E j \in 1..(i - 1) :
                        s[j] >= Base /\ \A k \in (j + 1)..(i - 1) : s[k] >= Base - 1
    IN  BTrim([i \in 1..(n + 1) |-> (s[i] + (IF Carry(i) THEN 1 ELSE 0)) % Base])

\* a - b for a >= b
BSub(a, b) ==
    LET Borrow(i) == \E j \in 1..(i - 1) :
                         a[j] < Limb(b, j) /\ \A k \in (j + 1)..(i - 1) : a[k] <= Limb(b, k)
    IN  BTrim([i \in 1..Len(a) |->
                  (a[i] - Limb(b, i) - (IF Borrow(i) THEN 1 ELSE 0)) % Base])

\* a * k + carry for 0 <= k <= Base and 0 <= carry < Base
BMulLimb(a, k, carry) ==
    BAdd([i \in 1..Len(a) |-> (a[i] * k) % Base],
         <<carry>> \o [i \in 1..Len(a) |-> (a[i] * k) \div Base])

\* a * Base^n
BShlLimbs(a, n) == IF a = <<>> THEN <<>> ELSE [i \in 1..n |-> 0] \o a

\* a * b, by halves of b
RECURSIVE BMul(_, _)
BMul(a, b) ==
    IF a = <<>> \/ b = <<>> THEN <<>>
    ELSE IF Len(b) = 1 THEN BMulLimb(a, b[1], 0)
    ELSE LET h == Len(b) \div 2
         IN  BAdd(BMul(a, BTrim(SubSeq(b, 1, h))),
                  BShlLimbs(BMul(a, SubSeq(b, h + 1, Len(b))), h))

\* k^n for 0 < k < Base
RECURSIVE BPow(_, _)
BPow(k, n) ==
    IF n = 0 THEN <<1>>
    ELSE LET h == BPow(k, n \div 2)
         IN  IF n % 2 = 0 THEN BMul(h, h) ELSE BMulLimb(BMul(h, h), k, 0)

\* a * 2^n
BShl(a, n) ==
    LET s == n % LimbBits
    IN  IF n = 0 THEN a
        ELSE BShlLimbs(BTrim([i \in 1..(Len(a) + 1) |->
                                 ((Limb(a, i) * 2^s) % Base)
                                     + (Limb(a, i - 1) \div 2^(LimbBits - s))]),
                       n \div LimbBits)

\* the integer part of a / 2^n
BShr(a, n) ==
    LET s == n % LimbBits
        b == SubSeq(a, (n \div LimbBits) + 1, Len(a))
    IN  IF n = 0 THEN a
        ELSE BTrim([i \in 1..Len(b) |->
                       (b[i] \div 2^s) + ((Limb(b, i + 1) % 2^s) * 2^(LimbBits - s))])

\* the bit of a that counts 2^i
BBit(a, i) == (Limb(a, (i \div LimbBits) + 1) \div 2^(i % LimbBits)) % 2

\* the number of bits of a: 0 for 0, else n with 2^(n-1) <= a < 2^n
BBitLen(a) ==
    IF a = <<>> THEN 0
    ELSE LimbBits * (Len(a) - 1)
             + (CHOOSE n \in 1..LimbBits : 2^(n - 1) <= a[Len(a)] /\ a[Len(a)] < 2^n)

\* the number of 0 bits below the lowest 1 bit of a, a not 0
BLowZeros(a) ==
    LET i == CHOOSE k \in 1..Len(a) : a[k] # 0 /\ \A j \in 1..(k - 1) : a[j] = 0
    IN  LimbBits * (i - 1)
            + (CHOOSE n \in 0..(LimbBits - 1) :
                   (a[i] % 2^n) = 0 /\ (a[i] % 2^(n + 1)) # 0)

\* quotient and remainder of the digits of a from the i-th up by a divisor
\* k of one digit: the digits above are divided first, and what they leave
\* is carried into the i-th digit
RECURSIVE BDivLimbTo(_, _, _)
BDivLimbTo(a, k, i) ==
    IF i > Len(a) THEN [q |-> <<>>, r |-> 0]
    ELSE LET above == BDivLimbTo(a, k, i + 1)
             cur   == above.r * Base + a[i]
         IN  [q |-> <<(cur \div k)>> \o above.q, r |-> cur % k]

\* quotient and remainder of the digits of a from the i-th up by b, whose
\* leading digit is at least Base / 2: the digits above are divided first
\* and leave less than b; the next digit of the quotient is the quotient of
\* the two leading digits of what is left by the leading digit of b, or up
\* to two less
\* the digit hat of the quotient goes before the digits q and leaves
\* cur - p, where p = hat * b is at most cur
BDivPut(q, cur, hat, p) == [q |-> <<hat>> \o q, r |-> BSub(cur, p)]

\* the digit is hat when p = hat * b is at most cur, else one less
BDivDigitDown(b, q, cur, hat, p) ==
    BDivPut(q, cur, IF BCmp(p, cur) <= 0 THEN hat ELSE hat - 1,
            IF BCmp(p, cur) <= 0 THEN p ELSE BSub(p, b))

\* the digit is hat when p = hat * b is at most cur, else up to two less
BDivDigitAt(b, q, cur, hat, p) ==
    BDivDigitDown(b, q, cur, IF BCmp(p, cur) <= 0 THEN hat ELSE hat - 1,
                  IF BCmp(p, cur) <= 0 THEN p ELSE BSub(p, b))

BDivDigit(b, q, cur, hat) == BDivDigitAt(b, q, cur, hat, BMulLimb(b, hat, 0))

\* the digit of the quotient for cur, which is less than b * Base
BDivEstimate(b, q, cur) ==
    LET est == (Limb(cur, Len(b) + 1) * Base + Limb(cur, Len(b))) \div b[Len(b)]
    IN  BDivDigit(b, q, cur, IF est > Base - 1 THEN Base - 1 ELSE est)

\* the i-th digit of a below what the digits above have left
BDivBelow(a, b, i, above) ==
    IF above.r = <<>> /\ a[i] = 0 THEN [q |-> <<0>> \o above.q, r |-> <<>>]
    ELSE BDivEstimate(b, above.q, BAdd(BShlLimbs(above.r, 1), <<a[i]>>))

RECURSIVE BDivTo(_, _, _)
BDivTo(a, b, i) ==
    IF i > Len(a) - Len(b) + 1 THEN [q |-> <<>>, r |-> BTrim(SubSeq(a, i, Len(a)))]
    ELSE BDivBelow(a, b, i, BDivTo(a, b, i + 1))

\* the quotient without leading digits 0 and the remainder divided by 2^s
BDivShifted(qr, s) == [q |-> BTrim(qr.q), r |-> BShr(qr.r, s)]

\* quotient and remainder of a by b, b not 0; for a b of more than one
\* digit both are shifted to make the leading digit of b at least Base / 2
BDivMod(a, b) ==
    IF Len(b) = 1
    THEN LET qr == BDivLimbTo(a, b[1], 1)
         IN  [q |-> BTrim(qr.q), r |-> BOfInt(qr.r)]
    ELSE LET s == LimbBits * Len(b) - BBitLen(b)
         IN  BDivShifted(BDivTo(BShl(a, s), BShl(b, s), 1), s)

(***************************************************************************)
(* JavaScript numbers.  A finite number is a double: sign * mant * 2^exp   *)
(* with mant odd, or mant 0 and exp 0 for the two zeros; mant has at most  *)
(* 53 bits, exp is at least -1074 and the value is below 2^1024.  The      *)
(* other values are NaN, the two infinities, null where a number is        *)
(* expected, and undefined for a property that an object does not have.    *)
(***************************************************************************)
MantBits == 53

MinExp == -1074

MaxBits == 1024

NaN == [tag |-> "NaN", sign |-> 1, mant |-> <<>>, exp |-> 0]

NullNumber == [tag |-> "null", sign |-> 1, mant |-> <<>>, exp |-> 0]

Undefined == [tag |-> "undefined", sign |-> 1, mant |-> <<>>, exp |-> 0]

\* Infinity and -Infinity
Infinite(sign) == [tag |-> "Infinity", sign |-> sign, mant |-> <<>>, exp |-> 0]

\* 0 and -0
Zero(sign) == [tag |-> "number", sign |-> sign, mant |-> <<>>, exp |-> 0]

\* sign * m * 2^e, which is a double, with the mantissa made odd
Double(sign, m, e) ==
    IF m = <<>> THEN Zero(sign)
    ELSE LET zeros == BLowZeros(m)
         IN  [tag |-> "number", sign |-> sign, mant |-> BShr(m, zeros), exp |-> e + zeros]

IsZero(x) == x.tag = "number" /\ x.mant = <<>>

\* the double nearest to sign * (n / d) * 2^x for n >= 0 and d > 0, the one
\* with an even mantissa of two that are as near (roundTiesToEven): a value
\* that is a double is that double; else the quotient is in [2^k, 2^(k+1)),
\* the unit of the mantissa is 2^e, the least unit -1074 for a subnormal,
\* and a value that rounds to 2^1024 is Infinity
Finite(sign, m, e) ==
    IF BBitLen(m) + e > MaxBits THEN Infinite(sign) ELSE Double(sign, m, e)

\* the quotient qr.q of the mantissa, one more when the remainder qr.r is
\* above half of den, or is half of den and the quotient is odd
RoundUp(sign, qr, den, e) ==
    LET twice == BCmp(BShl(qr.r, 1), den)
    IN  Finite(sign,
               IF twice > 0 \/ (twice = 0 /\ BBit(qr.q, 0) = 1)
               THEN BAdd(qr.q, <<1>>) ELSE qr.q,
               e)

RoundQuotient(sign, num, den, e) == RoundUp(sign, BDivMod(num, den), den, e)

\* the mantissa in units of 2^e
RoundAt(sign, n, d, x, e) ==
    RoundQuotient(sign, IF x >= e THEN BShl(n, x - e) ELSE n,
                  IF x >= e THEN d ELSE BShl(d, e - x), e)

\* the unit of the mantissa for a quotient in [2^k, 2^(k+1))
RoundWithin(sign, n, d, x, k) ==
    RoundAt(sign, n, d, x,
            IF k + x - (MantBits - 1) < MinExp THEN MinExp ELSE k + x - (MantBits - 1))

\* bl is the number of bits of n less that of d
RoundFrom(sign, n, d, x, bl) ==
    RoundWithin(sign, n, d, x,
                IF BCmp(BShl(n, IF bl < 0 THEN -bl ELSE 0),
                        BShl(d, IF bl > 0 THEN bl ELSE 0)) >= 0
                THEN bl ELSE bl - 1)

Round(sign, n, d, x) ==
    IF n = <<>> THEN Zero(sign)
    ELSE IF d = <<1>> /\ BBitLen(n) <= MantBits /\ x >= MinExp THEN Finite(sign, n, x)
    ELSE RoundFrom(sign, n, d, x, BBitLen(n) - BBitLen(d))

\* the double of an integer of the model, which is below 2^31
Num(n) == Double(IF n < 0 THEN -1 ELSE 1, BOfInt(IF n < 0 THEN -n ELSE n), 0)

Digits == {ToString(n) : n \in 0..9}

DigitOf(c) == CHOOSE n \in 0..9 : ToString(n) = c

HexLetters == <<"a", "b", "c", "d", "e", "f">>

HexCapitals == <<"A", "B", "C", "D", "E", "F">>

\* the digits of a radix: 0-1, 0-7, or 0-9 a-f A-F
RadixDigits(radix) ==
    {ToString(n) : n \in 0..(IF radix < 10 THEN radix - 1 ELSE 9)}
        \cup (IF radix = 16 THEN Range(HexLetters) \cup Range(HexCapitals) ELSE {})

RadixDigitOf(c) ==
    IF c \in Digits THEN DigitOf(c)
    ELSE 9 + (CHOOSE k \in 1..6 : HexLetters[k] = c \/ HexCapitals[k] = c)

\* the mathematical value of the digits t in a radix, by halves of t
RECURSIVE RadixValue(_, _)
RadixValue(t, radix) ==
    IF t = <<>> THEN <<>>
    ELSE IF Len(t) = 1 THEN BOfInt(RadixDigitOf(t[1]))
    ELSE LET h == Len(t) \div 2
         IN  BAdd(BMul(RadixValue(SubSeq(t, 1, h), radix), BPow(radix, Len(t) - h)),
                  RadixValue(SubSeq(t, h + 1, Len(t)), radix))

\* 5^n
Pow5(n) == BPow(5, n)

AllIn(t, set) == \A i \in 1..Len(t) : t[i] \in set

\* the index of the first element of t that is in set, 0 when there is none
FirstIn(t, set) ==
    IF \E i \in 1..Len(t) : t[i] \in set
    THEN CHOOSE i \in 1..Len(t) : t[i] \in set /\ \A j \in 1..(i - 1) : t[j] \notin set
    ELSE 0

\* t without its leading zeros
Significant(t) ==
    IF AllIn(t, {"0"}) THEN <<>>
    ELSE SubSeq(t, CHOOSE i \in 1..Len(t) :
                       t[i] # "0" /\ \A j \in 1..(i - 1) : t[j] = "0", Len(t))

RECURSIVE DigitsValue(_, _, _)
DigitsValue(t, i, acc) ==
    IF i > Len(t) THEN acc ELSE DigitsValue(t, i + 1, 10 * acc + DigitOf(t[i]))

\* the exponent that the digits t write: more than nine digits write an
\* exponent beyond the length of any string, for which 10^9 stands
ExponentOf(t) ==
    IF Len(Significant(t)) > 9 THEN 1000000000 ELSE DigitsValue(Significant(t), 1, 0)

\* the radix of a text that starts with 0x, 0b or 0o in either case, else 10
RadixOf(t) ==
    IF Len(t) < 2 \/ t[1] # "0" THEN 10
    ELSE IF t[2] \in {"x", "X"} THEN 16
    ELSE IF t[2] \in {"b", "B"} THEN 2
    ELSE IF t[2] \in {"o", "O"} THEN 8
    ELSE 10

\* m * 10^net rounded, which is m * 5^net * 2^net, where p is 5^|net|
DecimalScaled(sign, m, p, net) ==
    Round(sign, IF net >= 0 THEN BMul(m, p) ELSE m, IF net >= 0 THEN <<1>> ELSE p, net)

\* the double of the digits, which start with no 0, times 10^net.  A value
\* of 10^309 or more is Infinity and one below 10^-324 is 0, whatever the
\* digits: the first is above every double, the second rounds to 0
DecimalRound(sign, digits, net) ==
    IF digits = <<>> THEN Zero(sign)
    ELSE IF Len(digits) - 1 + net >= 309 THEN Infinite(sign)
    ELSE IF Len(digits) + net <= -324 THEN Zero(sign)
    ELSE DecimalScaled(sign, RadixValue(digits, 10),
                       Pow5(IF net >= 0 THEN net ELSE -net), net)

\* StrUnsignedDecimalLiteral, sign times its value: digits with at most one
\* point and at least one digit, then an optional exponent e or E with an
\* optional sign and at least one digit; the value is rounded to a double
DecimalValue(u, sign) ==
    LET e     == FirstIn(u, {"e", "E"})
        mant  == IF e = 0 THEN u ELSE SubSeq(u, 1, e - 1)
        expo  == IF e = 0 THEN <<>> ELSE SubSeq(u, e + 1, Len(u))
        signed == expo # <<>> /\ expo[1] \in {"+", "-"}
        edig  == IF signed THEN Tail(expo) ELSE expo
        p     == FirstIn(mant, {"."})
        ip    == IF p = 0 THEN mant ELSE SubSeq(mant, 1, p - 1)
        fp    == IF p = 0 THEN <<>> ELSE SubSeq(mant, p + 1, Len(mant))
    IN  IF ~AllIn(ip, Digits) \/ ~AllIn(fp, Digits) \/ ip \o fp = <<>> THEN NaN
        ELSE IF e # 0 /\ (edig = <<>> \/ ~AllIn(edig, Digits)) THEN NaN
        ELSE DecimalRound(sign, Significant(ip \o fp),
                          (IF signed /\ expo[1] = "-" THEN -1 ELSE 1) * ExponentOf(edig)
                              - Len(fp))

InfinityText == <<"I", "n", "f", "i", "n", "i", "t", "y">>

\* Number(s) for a string s (StringToNumber): white space is trimmed; the
\* empty string is 0; 0x, 0b, 0o and digits of the radix give the integer;
\* an optional sign and Infinity give the infinity; an optional sign and a
\* decimal literal give its value; any other text is NaN
ToNumber(s) ==
    LET t == Trim(s)
    IN  IF t = <<>> THEN Num(0)
        ELSE IF RadixOf(t) # 10
        THEN LET d == SubSeq(t, 3, Len(t))
             IN  IF d # <<>> /\ AllIn(d, RadixDigits(RadixOf(t)))
                 THEN Round(1, RadixValue(d, RadixOf(t)), <<1>>, 0)
                 ELSE NaN
        ELSE LET sign == IF t[1] = "-" THEN -1 ELSE 1
                 u    == IF t[1] \in {"+", "-"} THEN Tail(t) ELSE t
             IN  IF u = InfinityText THEN Infinite(sign) ELSE DecimalValue(u, sign)

\* s.replace("%", ""): the first % is removed, if there is one
ReplacePercent(s) ==
    IF \E i \in 1..Len(s) : s[i] = "%"
    THEN LET k == CHOOSE i \in 1..Len(s) : s[i] = "%" /\ \A j \in 1..(i - 1) : s[j] # "%"
         IN  SubSeq(s, 1, k - 1) \o SubSeq(s, k + 1, Len(s))
    ELSE s

\* row[k] for a 0-based index k: undefined (null here) past the end of the row
CellAt(row, k) == IF 0 <= k /\ k < Len(row) THEN Str(row[k + 1]) ELSE Null

\* String(v)
StringOf(v) == IF v.tag = "null" THEN <<"undefined">> ELSE v.chars

\* x || null for a number x
OrNull(x) == IF x.tag = "NaN" \/ IsZero(x) THEN NullNumber ELSE x

\* idx >= 0 ? Number(row[idx] || 0) : missing
NumberOrZero(row, k, missing) ==
    IF k < 0 THEN missing
    ELSE IF Falsy(CellAt(row, k)) THEN Num(0)
    ELSE ToNumber(CellAt(row, k).chars)

\* idx >= 0 ? Number(String(row[idx]).replace("%", "")) || null : null
PercentOrNull(row, k) ==
    IF k < 0 THEN NullNumber
    ELSE OrNull(ToNumber(ReplacePercent(StringOf(CellAt(row, k)))))

\* idx >= 0 ? row[idx] || "" : ""
TextOrEmpty(row, k) ==
    IF k < 0 \/ Falsy(CellAt(row, k)) THEN <<>> ELSE CellAt(row, k).chars

(***************************************************************************)
(* sell-through.js, fetchSheetBySku after the text was parsed.  A column   *)
(* title is a single element of a string: the code never splits it.        *)
(***************************************************************************)
ColSku == <<"Product variant SKU">>

ColDaysInStock == <<"Days in stock (at location)">>

ColDaysOutOfStock == <<"Days out of stock (at location)">>

ColInventoryUnitsSold == <<"Inventory units sold">>

ColSellThroughRate == <<"Sell-through rate">>

ColPercentInventorySold == <<"Percent of inventory sold">>

ColProductTitle == <<"Product title">>

ColVariantTitle == <<"Product variant title">>

ColAbc == <<"Product variant ABC grade">>

\* header.indexOf(name): the 0-based index of the first occurrence, or -1
IndexOf(header, name) ==
    IF \E i \in 1..Len(header) : header[i] = name
    THEN (CHOOSE i \in 1..Len(header) :
              header[i] = name /\ \A j \in 1..(i - 1) : header[j] # name) - 1
    ELSE -1

SheetThrew(message) == [threw |-> TRUE, message |-> message, bySku |-> <<>>]

\* the body of for (let r = 1; r < rows.length; r++)
SheetRow(bySku, row, header) ==
    LET cell    == CellAt(row, IndexOf(header, ColSku))
        rawSku  == IF Falsy(cell) THEN <<>> ELSE Trim(cell.chars)
        normSku == normaliseSku(Str(rawSku))
    IN  IF rawSku = <<>> \/ Falsy(normSku) THEN bySku
        ELSE AssignObject(bySku, normSku.chars,
                 [sku_norm      |-> normSku.chars,
                  sku_raw       |-> rawSku,
                  product_title |-> TextOrEmpty(row, IndexOf(header, ColProductTitle)),
                  variant_title |-> TextOrEmpty(row, IndexOf(header, ColVariantTitle)),
                  abc_grade     |-> TextOrEmpty(row, IndexOf(header, ColAbc)),
                  days_in_stock_24m |->
                      NumberOrZero(row, IndexOf(header, ColDaysInStock), Num(0)),
                  days_out_of_stock_24m |->
                      NumberOrZero(row, IndexOf(header, ColDaysOutOfStock), Num(0)),
                  inventory_units_sold_csv |->
                      NumberOrZero(row, IndexOf(header, ColInventoryUnitsSold), NullNumber),
                  sell_through_rate_csv |->
                      PercentOrNull(row, IndexOf(header, ColSellThroughRate)),
                  percent_inventory_sold_csv |->
                      PercentOrNull(row, IndexOf(header, ColPercentInventorySold))])

RECURSIVE SheetRows(_, _, _, _)
SheetRows(rows, r, header, bySku) ==
    IF r > Len(rows) THEN bySku
    ELSE SheetRows(rows, r + 1, header, SheetRow(bySku, rows[r], header))

\* fetchSheetBySku from const rows = parseCsv(csvText) on
SheetOfRows(rows) ==
    IF Len(rows) = 0 THEN SheetThrew("Sell-through sheet appears to be empty")
    ELSE LET header == [k \in 1..Len(rows[1]) |-> Trim(rows[1][k])]
         IN  IF IndexOf(header, ColSku) = -1 \/ IndexOf(header, ColDaysInStock) = -1
             THEN SheetThrew("Expected columns not found in sheet header")
             ELSE [threw |-> FALSE, message |-> "",
                   bySku |-> SheetRows(rows, 2, header, <<>>)]

(***************************************************************************)
(* sell-through.js, mergeSalesAndSheet.  salesStats and sheetStats are     *)
(* maps from a normalised SKU to the record of fetchSalesBySku and of      *)
(* fetchSheetBySku.                                                        *)
(***************************************************************************)
\* ToNumber of a value that is not a string: null is 0, undefined is NaN
AsNumber(x) ==
    IF x.tag = "null" THEN Num(0) ELSE IF x.tag = "undefined" THEN NaN ELSE x

\* a + b for two doubles that are not 0, from their mantissas m and n in
\* units of 2^low, the lesser of the two exponents: the exact sum rounded
SumAligned(a, b, m, n, low) ==
    IF a.sign # b.sign /\ BCmp(m, n) = 0 THEN Zero(1)
    ELSE Round(IF a.sign = b.sign \/ BCmp(m, n) > 0 THEN a.sign ELSE b.sign,
               IF a.sign = b.sign THEN BAdd(m, n)
               ELSE IF BCmp(m, n) > 0 THEN BSub(m, n) ELSE BSub(n, m),
               <<1>>, low)

SumFrom(a, b, low) ==
    SumAligned(a, b, BShl(a.mant, a.exp - low), BShl(b.mant, b.exp - low), low)

\* the exponent of the power of two that a double, not 0, is below
TopOf(x) == x.exp + BBitLen(x.mant)

\* a + b for two doubles; a sum of two zeros is -0 when both are -0 and 0
\* otherwise, and a sum of opposites is 0; a number below 2^-55 of the
\* power of two over the other is less than a quarter of the unit of the
\* other, so the sum is nearest to the other
SumOfDoubles(a, b) ==
    IF IsZero(a) /\ IsZero(b) THEN Zero(IF a.sign = -1 /\ b.sign = -1 THEN -1 ELSE 1)
    ELSE IF IsZero(a) THEN b
    ELSE IF IsZero(b) THEN a
    ELSE IF TopOf(b) + MantBits + 2 <= TopOf(a) THEN a
    ELSE IF TopOf(a) + MantBits + 2 <= TopOf(b) THEN b
    ELSE SumFrom(a, b, IF a.exp < b.exp THEN a.exp ELSE b.exp)

\* a + b for numbers
Sum(a, b) ==
    IF a.tag = "number" /\ b.tag = "number" THEN SumOfDoubles(a, b)
    ELSE IF a.tag = "Infinity" /\ b.tag = "Infinity"
    THEN (IF a.sign = b.sign THEN a ELSE NaN)
    ELSE IF a.tag = "Infinity" /\ b.tag = "number" THEN a
    ELSE IF a.tag = "number" /\ b.tag = "Infinity" THEN b
    ELSE NaN

\* a + b
Plus(a, b) == Sum(AsNumber(a), AsNumber(b))

\* a number is truthy: not 0, NaN, null or undefined
TruthyNumber(x) == (x.tag = "number" /\ ~IsZero(x)) \/ x.tag = "Infinity"

\* x || 0
OrZeroNumber(x) == IF TruthyNumber(x) THEN x ELSE Num(0)

\* x > 0
Positive(x) == x.tag \in {"number", "Infinity"} /\ ~IsZero(x) /\ x.sign = 1

\* a / b for numbers: the exact quotient of two doubles rounded
Ratio(a, b) ==
    IF a.tag = "NaN" \/ b.tag = "NaN" THEN NaN
    ELSE IF a.tag = "Infinity"
    THEN (IF b.tag = "Infinity" THEN NaN ELSE Infinite(a.sign * b.sign))
    ELSE IF b.tag = "Infinity" THEN Zero(a.sign * b.sign)
    ELSE IF IsZero(b)
    THEN (IF IsZero(a) THEN NaN ELSE Infinite(a.sign * b.sign))
    ELSE Round(a.sign * b.sign, a.mant, b.mant, a.exp - b.exp)

\* a / b
Quotient(a, b) == Ratio(AsNumber(a), AsNumber(b))

\* a member of Object.prototype read as an entry of the sales: it has no
\* sku and no any_raw_sku, and its total_sold_24m is NaN (undefined + qty)
\* once a line item of its name has been counted, or one named __proto__,
\* whose total every object inherits
InheritedSales(k) ==
    [sku |-> <<>>, any_raw_sku |-> <<>>,
     total_sold_24m |-> IF k \in sTouched \/ ProtoKey \in sTouched
                        THEN NaN ELSE Undefined]

\* salesStats[sku] || {...}: the own entry, else the inherited member of that
\* name, else the default; the total is a number of the kind of the sheet's
SalesOrDefault(salesStats, sku) ==
    IF sku \in DOMAIN salesStats
    THEN [sku |-> salesStats[sku].sku, any_raw_sku |-> salesStats[sku].any_raw_sku,
          total_sold_24m |-> Num(salesStats[sku].total_sold_24m)]
    ELSE IF sku \in ObjectPrototypeKeys THEN InheritedSales(sku)
    ELSE [sku |-> sku, any_raw_sku |-> sku, total_sold_24m |-> Num(0)]

\* a member of Object.prototype, or a text or a number, read as a row of
\* the sheet: every field is undefined
InheritedSheet ==
    [sku_norm      |-> Undefined,
     sku_raw       |-> <<>>,
     product_title |-> Undefined,
     variant_title |-> Undefined,
     abc_grade     |-> Undefined,
     days_in_stock_24m          |-> Undefined,
     days_out_of_stock_24m      |-> Undefined,
     inventory_units_sold_csv   |-> Undefined,
     sell_through_rate_csv      |-> Undefined,
     percent_inventory_sold_csv |-> Undefined]

\* the fields of a row of the sheet by name: whether the value is truthy,
\* a text that is not empty or a number that is not 0, NaN or null
TruthyFields(row) ==
    (<<"s", "k", "u", "_", "n", "o", "r", "m">>
         :> (row.sku_norm # <<>>))
    @@ (<<"s", "k", "u", "_", "r", "a", "w">>
         :> (row.sku_raw # <<>>))
    @@ (<<"p", "r", "o", "d", "u", "c", "t", "_", "t", "i", "t", "l", "e">>
         :> (row.product_title # <<>>))
    @@ (<<"v", "a", "r", "i", "a", "n", "t", "_", "t", "i", "t", "l", "e">>
         :> (row.variant_title # <<>>))
    @@ (<<"a", "b", "c", "_", "g", "r", "a", "d", "e">>
         :> (row.abc_grade # <<>>))
    @@ (<<"d", "a", "y", "s", "_", "i", "n", "_", "s", "t", "o", "c", "k", "_", "2", "4", "m">>
         :> TruthyNumber(row.days_in_stock_24m))
    @@ (<<"d", "a", "y", "s", "_", "o", "u", "t", "_", "o", "f", "_", "s", "t", "o", "c", "k", "_", "2", "4", "m">>
         :> TruthyNumber(row.days_out_of_stock_24m))
    @@ (<<"i", "n", "v", "e", "n", "t", "o", "r", "y", "_", "u", "n", "i", "t", "s", "_", "s", "o", "l", "d", "_", "c", "s", "v">>
         :> TruthyNumber(row.inventory_units_sold_csv))
    @@ (<<"s", "e", "l", "l", "_", "t", "h", "r", "o", "u", "g", "h", "_", "r", "a", "t", "e", "_", "c", "s", "v">>
         :> TruthyNumber(row.sell_through_rate_csv))
    @@ (<<"p", "e", "r", "c", "e", "n", "t", "_", "i", "n", "v", "e", "n", "t", "o", "r", "y", "_", "s", "o", "l", "d", "_", "c", "s", "v">>
         :> TruthyNumber(row.percent_inventory_sold_csv))

\* the {...} of sheetStats[sku] || {...}
SheetDefault(sku, sales) ==
    [sku_norm      |-> sku,
     sku_raw       |-> IF sales.any_raw_sku # <<>> THEN sales.any_raw_sku ELSE sku,
     product_title |-> <<>>,
     variant_title |-> <<>>,
     abc_grade     |-> <<>>,
     days_in_stock_24m          |-> Num(0),
     days_out_of_stock_24m      |-> Num(0),
     inventory_units_sold_csv   |-> NullNumber,
     sell_through_rate_csv      |-> NullNumber,
     percent_inventory_sold_csv |-> NullNumber]

\* sheetStats[sku] || {...} where sheetStats owns no key sku and has the
\* row proto as its prototype: a field of the row of that name is found,
\* a text or a number, whose fields are all undefined when it is truthy;
\* else the member of Object.prototype of that name
SheetInherited(proto, sku, sales) ==
    IF sku \in DOMAIN TruthyFields(proto)
    THEN (IF TruthyFields(proto)[sku] THEN InheritedSheet ELSE SheetDefault(sku, sales))
    ELSE IF sku \in ObjectPrototypeKeys THEN InheritedSheet
    ELSE SheetDefault(sku, sales)

\* sheetStats[sku] || {...}: the own entry (for __proto__ the prototype),
\* else what the prototype has of that name, else the default
SheetOrDefault(sheetStats, sku, sales) ==
    IF sku \in DOMAIN sheetStats THEN sheetStats[sku]
    ELSE IF ProtoKey \in DOMAIN sheetStats
    THEN SheetInherited(sheetStats[ProtoKey], sku, sales)
    ELSE IF sku \in ObjectPrototypeKeys THEN InheritedSheet
    ELSE SheetDefault(sku, sales)

\* mutant: the rate is computed whatever the total of the days
InStockRateUnguarded(sheet, totalDays) == Quotient(sheet.days_in_stock_24m, totalDays)

\* totalDays > 0 ? sheet.days_in_stock_24m / totalDays : null
InStockRate(sheet, totalDays) ==
    IF Positive(totalDays) THEN Quotient(sheet.days_in_stock_24m, totalDays)
    ELSE NullNumber

\* sheet.days_in_stock_24m > 0 ? sales.total_sold_24m / sheet.days_in_stock_24m : null
VelocityInStock(sales, sheet) ==
    IF Positive(sheet.days_in_stock_24m)
    THEN Quotient(sales.total_sold_24m, sheet.days_in_stock_24m)
    ELSE NullNumber

\* new Set([...Object.keys(salesStats), ...Object.keys(sheetStats)])
AllSkus(salesStats, sheetStats) == Keys(salesStats) \cup Keys(sheetStats)

\* items[sku] = {...} of the body of for (const sku of allSkus)
MergedOf(sku, sales, sheet) ==
    [sku_norm      |-> sku,
     sku_raw       |-> IF sheet.sku_raw # <<>> THEN sheet.sku_raw
                       ELSE IF sales.any_raw_sku # <<>> THEN sales.any_raw_sku
                       ELSE sku,
     product_title |-> sheet.product_title,
     variant_title |-> sheet.variant_title,
     abc_grade     |-> sheet.abc_grade,
     total_sold_24m             |-> sales.total_sold_24m,
     days_in_stock_24m          |-> sheet.days_in_stock_24m,
     days_out_of_stock_24m      |-> sheet.days_out_of_stock_24m,
     in_stock_rate_24m          |->
         InStockRate(sheet, OrZeroNumber(Plus(sheet.days_in_stock_24m,
                                              sheet.days_out_of_stock_24m))),
     velocity_in_stock_24m      |-> VelocityInStock(sales, sheet),
     inventory_units_sold_csv   |-> sheet.inventory_units_sold_csv,
     sell_through_rate_csv      |-> sheet.sell_through_rate_csv,
     percent_inventory_sold_csv |-> sheet.percent_inventory_sold_csv]

\* the body of for (const sku of allSkus): const sales = salesStats[sku] ||
\* {...}, const sheet = sheetStats[sku] || {...}, then the item
MergedItem(salesStats, sheetStats, sku) ==
    MergedOf(sku, SalesOrDefault(salesStats, sku),
             SheetOrDefault(sheetStats, sku, SalesOrDefault(salesStats, sku)))

\* items[sku] = {...} for every sku of allSkus
mergeSalesAndSheet(salesStats, sheetStats) ==
    [sku \in AllSkus(salesStats, sheetStats) |->
        MergedItem(salesStats, sheetStats, sku)]

\* JSON.stringify of a number: NaN and the infinities are written as null
\* and -0 as 0; a field that is undefined is left out, which the tag
\* "undefined" stands for
JsonNumber(x) ==
    IF x.tag \in {"NaN", "Infinity"} THEN NullNumber
    ELSE IF IsZero(x) THEN Zero(1)
    ELSE x

\* res.status(200).json({ ..., items }): the items as the caller reads them
JsonItems(items) ==
    [sku \in DOMAIN items |->
        [items[sku] EXCEPT
            !.total_sold_24m             = JsonNumber(@),
            !.days_in_stock_24m          = JsonNumber(@),
            !.days_out_of_stock_24m      = JsonNumber(@),
            !.in_stock_rate_24m          = JsonNumber(@),
            !.velocity_in_stock_24m      = JsonNumber(@),
            !.inventory_units_sold_csv   = JsonNumber(@),
            !.sell_through_rate_csv      = JsonNumber(@),
            !.percent_inventory_sold_csv = JsonNumber(@)]]

(***************************************************************************)
(* Inputs of the sheet reader: a header and one data row.  The numeric     *)
(* cells are empty, zero, a number, text, and the same with a % sign.      *)
(***************************************************************************)
HeaderFull ==
    <<ColSku, ColDaysInStock, ColDaysOutOfStock, ColInventoryUnitsSold,
      ColSellThroughRate, ColPercentInventorySold>>

\* the required columns only, in another order
HeaderMin == <<ColDaysInStock, ColSku>>

\* a required column is missing
HeaderBad == <<ColSku>>

Cells == {<<>>, <<"0">>, <<"2">>, <<"x">>, <<"0", "%">>, <<"2", "%">>}

\* the cells of the day counts: also a signed number, a fraction and Infinity
DayCells == Cells \cup {<<"-", "1">>, <<"1", ".", "5">>, InfinityText}

UnitCells == {<<>>, <<"2">>, <<"x">>}

PercentCells == {<<"0", "%">>, <<"2">>, <<"x">>}

SkuCells == {<<"A">>, <<"A", "-", "#">>, <<>>, ConstructorKey, ProtoKey}

SheetInputs ==
    {<<HeaderFull, <<sku, c1, c2, c3, c4, c5>>>> :
        sku \in SkuCells, c1 \in DayCells, c2 \in DayCells, c3 \in UnitCells,
        c4 \in Cells, c5 \in PercentCells}
        \cup {<<HeaderFull, <<sku, c1>>>> : sku \in SkuCells, c1 \in DayCells}
        \cup {<<HeaderMin, <<c1, sku>>>> : sku \in SkuCells, c1 \in DayCells}
        \cup {<<HeaderBad, <<sku>>>> : sku \in SkuCells}
        \cup {<<>>}

(***************************************************************************)
(* Inputs of the merger: stats of SKUs A and B as the two fetchers return  *)
(* them.                                                                   *)
(***************************************************************************)
MergeSkus == {<<"A">>, <<"B">>}

\* the entries of a SKU: the first spelling seen of A is the SKU or one that
\* normalises to it, that of B is the SKU
SalesRecords(sku) ==
    {[sku |-> sku, any_raw_sku |-> raw, total_sold_24m |-> n] :
        raw \in IF sku = <<"A">> THEN {sku, sku \o <<"-", "#", "#">>} ELSE {sku},
        n \in 0..MaxSold}

\* day counts that Number() gives of the cells 0.1, 0.2, 5e-324 (the least
\* double above 0), 1e308 (two of which are beyond the greatest double)
\* and -0
Tenth == ToNumber(<<"0", ".", "1">>)

Fifth == ToNumber(<<"0", ".", "2">>)

Least == ToNumber(<<"5", "e", "-", "3", "2", "4">>)

Huge == ToNumber(<<"1", "e", "3", "0", "8">>)

MinusZero == ToNumber(<<"-", "0">>)

\* a record of the sheet with its two day counts
SheetRecord(sku, din, dout) ==
    [sku_norm      |-> sku,
     sku_raw       |-> sku \o <<"-", "#">>,
     product_title |-> <<"x">>,
     variant_title |-> <<>>,
     abc_grade     |-> <<"x">>,
     days_in_stock_24m          |-> din,
     days_out_of_stock_24m      |-> dout,
     inventory_units_sold_csv   |-> Num(2),
     sell_through_rate_csv      |-> NullNumber,
     percent_inventory_sold_csv |-> Num(2)]

\* day counts in and out of stock whose sum or quotients are rounded (0.1
\* and 0.2), are beyond the doubles (1e308 twice, a unit over 5e-324) or
\* below them (5e-324 over 1e308), or have a zero with a sign
RoundedDays ==
    {<<Tenth, Fifth>>, <<Huge, Huge>>, <<Least, Fifth>>, <<Least, Huge>>,
     <<Tenth, MinusZero>>, <<Num(0), MinusZero>>, <<Huge, Num(0)>>}

\* the records of a SKU: for A with day counts that are whole, not a
\* number, infinite or negative, for B with whole or rounded ones
SheetRecords(sku) ==
    IF sku = <<"B">>
    THEN {SheetRecord(sku, din, dout) : din \in {Num(0), Num(2)}, dout \in {Num(0), Num(1)}}
             \cup {SheetRecord(sku, d[1], d[2]) : d \in RoundedDays}
    ELSE {SheetRecord(sku, din, dout) :
             din \in {Num(0), Num(2), NaN, Infinite(1)},
             dout \in {Num(0), Num(1), NaN, Num(-3)}}

\* the records of the sheet for a SKU that names a member of Object.prototype
MemberRecords(sku) ==
    {SheetRecord(sku, din, Num(0)) : din \in {Num(0), Num(2)}}

\* the members of Object.prototype that line items of earlier runs of
\* fetchSalesBySku in the same process have been added to
TouchedInputs == {{}, {ConstructorKey}}

\* the maps from some of the SKUs to one of their entries
SalesStatsInputs ==
    UNION {{f \in [D -> UNION {SalesRecords(k) : k \in D}] :
               \A k \in D : f[k] \in SalesRecords(k)} : D \in SUBSET MergeSkus}

\* no row of a SKU, or one of the records
RowsOf(sku, records) == {<<>>} \cup {(sku :> r) : r \in records}

\* the sheets: the merger treats each SKU by itself, so one SKU has any of
\* its records beside one record of the other, or none.  A has any record
\* beside 2 days in and 1 out of stock for B; B has any record beside day
\* counts 0 for A; and fetchSheetBySku keeps a row whose SKU names a member
\* of Object.prototype (fetchSalesBySku keeps no such line item), which is
\* beside 2 days in and 1 out of stock for A
SheetStatsInputs ==
    {a @@ b : a \in RowsOf(<<"A">>, SheetRecords(<<"A">>)),
              b \in RowsOf(<<"B">>, {SheetRecord(<<"B">>, Num(2), Num(1))})}
        \cup {a @@ b : a \in RowsOf(<<"A">>, {SheetRecord(<<"A">>, Num(0), Num(0))}),
                       b \in RowsOf(<<"B">>, SheetRecords(<<"B">>))}
        \cup {a @@ c : a \in RowsOf(<<"A">>, {SheetRecord(<<"A">>, Num(2), Num(1))}),
                       c \in {(ConstructorKey :> r) : r \in MemberRecords(ConstructorKey)}}

\* the sheets with a row of the SKU __proto__, which is their prototype:
\* its texts are not empty but for variant_title, its day counts are 2
\* and 0; beside it no row, or one of A
PrototypeSheets ==
    {a @@ (ProtoKey :> SheetRecord(ProtoKey, Num(2), Num(0))) :
        a \in RowsOf(<<"A">>, {SheetRecord(<<"A">>, Num(2), Num(1))})}

\* sales of SKUs that name fields of the rows of the sheet, fields whose
\* value in the prototype is truthy (sku_raw, days_in_stock_24m) and falsy
\* (variant_title, days_out_of_stock_24m), and of A
FieldSkus ==
    {SkuRawKey,
     <<"d", "a", "y", "s", "_", "i", "n", "_", "s", "t", "o", "c", "k", "_", "2", "4", "m">>,
     <<"v", "a", "r", "i", "a", "n", "t", "_", "t", "i", "t", "l", "e">>,
     <<"d", "a", "y", "s", "_", "o", "u", "t", "_", "o", "f", "_", "s", "t", "o", "c", "k", "_", "2", "4", "m">>,
     <<"A">>}

FieldSalesInputs ==
    {[k \in D |-> [sku |-> k, any_raw_sku |-> k \o <<"-", "#">>, total_sold_24m |-> 1]] :
        D \in SUBSET FieldSkus}

(***************************************************************************)
(* The upstream of a run of the handler: the environment, the orders of    *)
(* the platform, and the CSV text that the sheet URL serves.               *)
(***************************************************************************)
EnvNames == {"STORE_DOMAIN", "ADMIN_TOKEN", "SHEET_CSV_URL"}

\* a row written as a line of CSV, without quoting
RECURSIVE CsvLine(_)
CsvLine(row) ==
    IF row = <<>> THEN <<"\n">>
    ELSE IF Len(row) = 1 THEN Head(row) \o <<"\n">>
    ELSE Head(row) \o <<",">> \o CsvLine(Tail(row))

SheetTexts ==
    {<<>>,
     CsvLine(HeaderMin) \o CsvLine(<<<<"2">>, <<"A", "-", "#">>>>),
     CsvLine(HeaderMin) \o CsvLine(<<<<"2">>, ConstructorKey>>),
     CsvLine(HeaderMin) \o CsvLine(<<<<"2">>, ProtoKey>>),
     CsvLine(HeaderFull) \o CsvLine(<<<<"B">>, <<"2">>, <<"0">>, <<"2">>, <<"2", "%">>, <<"x">>>>)}

\* the responses of the sheet URL: the text, or a failure status
SheetResponses(text) == {[ok |-> TRUE, text |-> text], [ok |-> FALSE, text |-> <<>>]}

(***************************************************************************)
(* sell-through.js.  The parser, the sheet reader and the merger are each  *)
(* applied to their inputs ("csv", "cells", "merge"); "handler" is one run *)
(* of the handler, where an action is a request, its response, and the     *)
(* code that runs until the next request is sent or the caller is answered.*)
(***************************************************************************)
SellInitCsv ==
    /\ sMode = "csv"
    /\ sPc = "input"
    /\ sText \in CsvTexts
    /\ sRows = <<>>
    /\ sSheet = <<>>
    /\ sSales = <<>>
    /\ sEnv = {}
    /\ sOrders = <<>>
    /\ sTouched = {}

SellInitCells ==
    /\ sMode = "cells"
    /\ sPc = "input"
    /\ sText = <<>>
    /\ sRows \in SheetInputs
    /\ sSheet = <<>>
    /\ sSales = <<>>
    /\ sEnv = {}
    /\ sOrders = <<>>
    /\ sTouched = {}

\* the merger reads a member of Object.prototype only for a key of the sheet
\* that names one, so the touched members vary with such a key only; it
\* reads a field of the prototype of the sheet only for a key of the sales
\* that names one
SellInitMerge ==
    /\ sMode = "merge"
    /\ sPc = "input"
    /\ sText = <<>>
    /\ sRows = <<>>
    /\ \/ sSheet \in SheetStatsInputs /\ sSales \in SalesStatsInputs
       \/ sSheet \in PrototypeSheets /\ sSales \in FieldSalesInputs
    /\ sEnv = {}
    /\ sOrders = <<>>
    /\ sTouched \in IF ConstructorKey \in DOMAIN sSheet THEN TouchedInputs ELSE {{}}

SellInitHandler ==
    /\ sMode = "handler"
    /\ sPc = "start"
    /\ sText \in SheetTexts
    /\ sRows = <<>>
    /\ sSheet = <<>>
    /\ sSales = <<>>
    /\ sEnv \in SUBSET EnvNames
    /\ sOrders \in SeqsUpTo(SalesKinds, MaxOrders)
    /\ sTouched \in TouchedInputs

SellInit ==
    /\ SkuIdle
    /\ EngIdle
    /\ FetchIdle
    /\ RepIdle
    /\ RestIdle
    /\ BatchIdle
    /\ LinkIdle
    /\ RunIdle
    /\ \/ SellInitCsv
       \/ SellInitCells
       \/ SellInitMerge
       \/ SellInitHandler
    /\ sItems = <<>>
    /\ sCursor = 0
    /\ sRequests = <<>>
    /\ sResponses = <<>>

\* const rows = parseCsv(csvText)
ParseCsv ==
    /\ sMode = "csv"
    /\ sPc = "input"
    /\ sRows' = parseCsv(sText)
    /\ sPc' = "done"
    /\ UNCHANGED <<sMode, sTouched, sEnv, sText, sSheet, sSales, sItems, sOrders, sCursor,
                   sRequests, sResponses,
                   skuVars, engVars, fetchVars, repVars, restVars,
                   batchVars, linkVars, runVars>>

\* fetchSheetBySku from the parsed rows on
ReadSheet ==
    /\ sMode = "cells"
    /\ sPc = "input"
    /\ \E r \in {SheetOfRows(sRows)} :
          /\ sSheet' = r.bySku
          /\ sPc' = IF r.threw THEN "threw" ELSE "done"
    /\ UNCHANGED <<sMode, sTouched, sEnv, sText, sRows, sSales, sItems, sOrders, sCursor,
                   sRequests, sResponses,
                   skuVars, engVars, fetchVars, repVars, restVars,
                   batchVars, linkVars, runVars>>

\* const items = mergeSalesAndSheet(salesStats, sheetStats)
Merge ==
    /\ sMode = "merge"
    /\ sPc = "input"
    /\ sItems' = mergeSalesAndSheet(sSales, sSheet)
    /\ sPc' = "done"
    /\ UNCHANGED <<sMode, sTouched, sEnv, sText, sRows, sSheet, sSales, sOrders, sCursor,
                   sRequests, sResponses,
                   skuVars, engVars, fetchVars, repVars, restVars,
                   batchVars, linkVars, runVars>>

\* catch (err): res.status(500).json({ ok: false, error: err.message || String(err) })
SellAbort(message) ==
    /\ sResponses' = Append(sResponses, ErrorResponse(message))
    /\ sPc' = "responded"

\* the handler up to the try: if (!STORE_DOMAIN || !ADMIN_TOKEN) return ...
SellStart ==
    /\ sMode = "handler"
    /\ sPc = "start"
    /\ IF "STORE_DOMAIN" \notin sEnv \/ "ADMIN_TOKEN" \notin sEnv
       THEN SellAbort("Missing Shopify environment variables")
       ELSE /\ sPc' = "sales"
            /\ UNCHANGED sResponses
    /\ UNCHANGED <<sMode, sTouched, sEnv, sText, sRows, sSheet, sSales, sItems, sOrders, sCursor,
                   sRequests,
                   skuVars, engVars, fetchVars, repVars, restVars,
                   batchVars, linkVars, runVars>>

\* a page of orders arrives, or the request fails: await fetchSalesBySku(months)
SellSalesPage ==
    /\ sMode = "handler"
    /\ sPc = "sales"
    /\ \E response \in Responses(ServePage(NodesOf("fetchSalesBySku", sOrders),
                                           sCursor, MaxFirst)) :
          \E r \in {shopifyGraphQL(response)} :
              /\ sRequests' = Append(sRequests, Logged("platform", sCursor, response))
              /\ IF r.threw
                 THEN /\ SellAbort(r.message)
                      /\ UNCHANGED <<sSales, sCursor, sTouched>>
                 ELSE \E st \in {fetchSalesBySkuStep(sCursor, sSales, r.data, Cutoff)} :
                      /\ sSales' = st.out
                      /\ sCursor' = st.cursor
                      /\ sTouched' = sTouched \cup TouchedOfEdges(r.data.edges, Cutoff)
                      /\ sPc' = IF st.pc = "loop" THEN "sales" ELSE "sheet"
                      /\ UNCHANGED sResponses
    /\ UNCHANGED <<sMode, sEnv, sText, sRows, sSheet, sItems, sOrders,
                   skuVars, engVars, fetchVars, repVars, restVars,
                   batchVars, linkVars, runVars>>

\* await fetchSheetBySku() without a sheet URL: the function throws at once
SellSheetNotSet ==
    /\ sMode = "handler"
    /\ sPc = "sheet"
    /\ "SHEET_CSV_URL" \notin sEnv
    /\ SellAbort("SELLTHROUGH_SHEET_CSV_URL is not set")
    /\ UNCHANGED <<sMode, sTouched, sEnv, sText, sRows, sSheet, sSales, sItems, sOrders, sCursor,
                   sRequests,
                   skuVars, engVars, fetchVars, repVars, restVars,
                   batchVars, linkVars, runVars>>

\* await fetchSheetBySku(), the merge and the response
SellSheet ==
    /\ sMode = "handler"
    /\ sPc = "sheet"
    /\ "SHEET_CSV_URL" \in sEnv
    /\ \E response \in SheetResponses(sText) :
          /\ sRequests' = Append(sRequests,
                 [to |-> "sheet", arg |-> 0, ok |-> response.ok, body |-> "text"])
          /\ IF ~response.ok
             THEN /\ SellAbort("Failed to fetch sell-through sheet")
                  /\ UNCHANGED <<sRows, sSheet, sItems>>
             ELSE \E rows \in {parseCsv(response.text)} :
                  \E r \in {SheetOfRows(rows)} :
                      /\ sRows' = rows
                      /\ sSheet' = r.bySku
                      /\ IF r.threw
                         THEN /\ SellAbort(r.message)
                              /\ UNCHANGED sItems
                         ELSE \E items \in {mergeSalesAndSheet(sSales, r.bySku)} :
                                  /\ sItems' = items
                                  /\ sResponses' = Append(sResponses,
                                                           ReportResponse(JsonItems(items)))
                                  /\ sPc' = "responded"
    /\ UNCHANGED <<sMode, sTouched, sEnv, sText, sSales, sOrders, sCursor,
                   skuVars, engVars, fetchVars, repVars, restVars,
                   batchVars, linkVars, runVars>>

SellNext ==
    \/ ParseCsv
    \/ ReadSheet
    \/ Merge
    \/ SellStart
    \/ SellSalesPage
    \/ SellSheetNotSet
    \/ SellSheet

SpecSell == SellInit /\ [][SellNext]_vars

(***************************************************************************)
(* Reference values of sell-through.js.                                    *)
(***************************************************************************)
\* mergeSalesAndSheet has returned: sItems is its result for sSales and sSheet
Merged ==
    \/ sMode = "merge" /\ sPc = "done"
    \/ sMode = "handler" /\ sPc = "responded" /\ sResponses[1].body.ok

OnlyInSheet == Keys(sSheet) \ Keys(sSales)

OnlyInSales == Keys(sSales) \ Keys(sSheet)

\* C12: the keys of the result of mergeSalesAndSheet are the union of the
\* keys of salesStats and sheetStats; a SKU of the sheet only has
\* total_sold_24m = 0 and the sheet's sku_raw; a SKU of the sales only has
\* both day counts 0, null sheet statistics and any_raw_sku as sku_raw.
C12_FullOuterJoin ==
    Merged =>
        /\ DOMAIN sItems = Keys(sSales) \cup Keys(sSheet)
        /\ \A sku \in OnlyInSheet :
              /\ sItems[sku].total_sold_24m = Num(0)
              /\ sItems[sku].sku_raw = sSheet[sku].sku_raw
        /\ \A sku \in OnlyInSales :
              /\ sItems[sku].days_in_stock_24m = Num(0)
              /\ sItems[sku].days_out_of_stock_24m = Num(0)
              /\ sItems[sku].inventory_units_sold_csv = NullNumber
              /\ sItems[sku].sell_through_rate_csv = NullNumber
              /\ sItems[sku].percent_inventory_sold_csv = NullNumber
              /\ sItems[sku].sku_raw = sSales[sku].any_raw_sku

\* the exponent of the unit in the last place of a double
UnitOf(r) ==
    IF IsZero(r) \/ r.exp + BBitLen(r.mant) - MantBits < MinExp THEN MinExp
    ELSE r.exp + BBitLen(r.mant) - MantBits

\* r is a finite double
IsDouble(r) ==
    /\ r.tag = "number"
    /\ r.sign \in {-1, 1}
    /\ \/ IsZero(r)
       \/ /\ r.mant # <<>>
          /\ BBit(r.mant, 0) = 1
          /\ r.exp >= UnitOf(r)
          /\ r.exp + BBitLen(r.mant) <= MaxBits

\* no double is nearer than r to the positive (n / d) * 2^x, and of two that
\* are as near r is the one with the even mantissa: for r = m * 2^e with the
\* unit 2^e, the value is within half a unit of r (a quarter below r when r
\* is a power of two, where the doubles below are twice as dense), the
\* bounds included when m is even; Infinity is nearest from half a unit
\* above the greatest double on
IsNearest(r, n, d, x) ==
    IF r.tag = "Infinity"
    THEN LET low == IF x < MaxBits - MantBits - 1 THEN x ELSE MaxBits - MantBits - 1
         IN  BCmp(BShl(n, x - low),
                  BShl(BMul(BSub(BShl(<<1>>, MantBits + 1), <<1>>), d),
                       MaxBits - MantBits - 1 - low)) >= 0
    ELSE /\ IsDouble(r)
         /\ LET e      == UnitOf(r)
                m      == IF IsZero(r) THEN <<>> ELSE BShl(r.mant, r.exp - e)
                even   == BBit(m, 0) = 0
                power  == r.mant = <<1>> /\ r.exp - e = MantBits - 1 /\ e > MinExp
                upper  == BAdd(BShl(m, 2), <<2>>)
                lower  == BSub(BShl(m, 2), IF power THEN <<1>> ELSE <<2>>)
                low    == IF x < e - 2 THEN x ELSE e - 2
                value  == BShl(n, x - low)
                At(c)  == BShl(BMul(c, d), e - 2 - low)
            IN  /\ BCmp(value, At(upper)) < 0 \/ (even /\ value = At(upper))
                /\ \/ m = <<>>
                   \/ BCmp(value, At(lower)) > 0
                   \/ (even /\ value = At(lower))

\* the ratio r is the quotient of a by the positive b: of two finite numbers
\* the double nearest to a / b with the sign of a (0 with the sign of a when
\* a is 0), and the quotient of the language when a is not a finite number
\* or b is infinite
IsQuotient(r, a, b) ==
    LET x == AsNumber(a)
    IN  IF x.tag = "number" /\ b.tag = "number"
        THEN /\ ~IsZero(b)
             /\ IF IsZero(x) THEN r = Zero(x.sign * b.sign)
                ELSE /\ r.tag \in {"number", "Infinity"}
                     /\ r.sign = x.sign * b.sign
                     /\ IsNearest(r, x.mant, b.mant, x.exp - b.exp)
        ELSE r = CASE x.tag = "NaN" -> NaN
                    [] x.tag = "Infinity" /\ b.tag = "Infinity" -> NaN
                    [] x.tag = "Infinity" -> Infinite(x.sign * b.sign)
                    [] OTHER -> Zero(x.sign * b.sign)

\* the value of the field f of the item of sku that the caller receives
Emitted(sku, f) == sResponses[1].body.items[sku][f]

\* C13: in_stock_rate_24m is null when days in stock plus days out of stock
\* is not positive and their quotient otherwise; velocity_in_stock_24m is
\* null when days in stock is not positive and total_sold_24m over days in
\* stock otherwise; no quotient has a zero divisor, and a null ratio is sent
\* to the caller as null.
C13_NoDivisionByZero ==
    Merged =>
        \A sku \in DOMAIN sItems :
            LET it    == sItems[sku]
                din   == it.days_in_stock_24m
                total == Plus(din, it.days_out_of_stock_24m)
            IN  /\ IF Positive(total)
                   THEN IsQuotient(it.in_stock_rate_24m, din, total)
                   ELSE /\ it.in_stock_rate_24m = NullNumber
                        /\ sMode = "handler" =>
                              Emitted(sku, "in_stock_rate_24m") = NullNumber
                /\ IF Positive(din)
                   THEN IsQuotient(it.velocity_in_stock_24m, it.total_sold_24m, din)
                   ELSE /\ it.velocity_in_stock_24m = NullNumber
                        /\ sMode = "handler" =>
                              Emitted(sku, "velocity_in_stock_24m") = NullNumber

\* a merge with a SKU of the sheet only whose day counts are both 0, and a
\* SKU with sales, 0.1 days in stock and 0.2 days out of stock: its rate is
\* 0.1 / 0.30000000000000004, a quotient that is rounded to 53 bits
C13_Witness ==
    /\ sMode = "merge"
    /\ sPc = "done"
    /\ \E sku \in OnlyInSheet :
          /\ sSheet[sku].days_in_stock_24m = Num(0)
          /\ sSheet[sku].days_out_of_stock_24m = Num(0)
          /\ sItems[sku].in_stock_rate_24m = NullNumber
    /\ \E sku \in DOMAIN sItems :
          /\ sItems[sku].days_in_stock_24m = Tenth
          /\ sItems[sku].days_out_of_stock_24m = Fifth
          /\ Positive(sItems[sku].total_sold_24m)
          /\ sItems[sku].velocity_in_stock_24m.tag = "number"
          /\ Positive(sItems[sku].velocity_in_stock_24m)
          /\ sItems[sku].in_stock_rate_24m.tag = "number"
          /\ BBitLen(sItems[sku].in_stock_rate_24m.mant) = MantBits

\* parseCsv has returned: sRows is its result for sText
Parsed == sMode = "csv" /\ sPc = "done"

\* C14: a text that is one double-quoted field parses to one row of one
\* field, the content between the quotes with every doubled quote as one
\* quote and with its commas and line breaks kept; "a,b""c" parses to a,b"c.
C14_QuotedFieldAsStated ==
    Parsed =>
        \A c \in Contents \cup {ExContent} :
            sText = Quoted(c) => sRows = <<<<c>>>>

\* C14, amended: a double-quoted field is one field with that content when
\* its content is not empty or another field shares its row; the text ""
\* alone is treated as a blank line and gives no row.
C14_QuotedField ==
    Parsed =>
        \A c \in Contents \cup {ExContent} :
            /\ (sText = Quoted(c) /\ c # <<>>) => sRows = <<<<c>>>>
            /\ sText = Quoted(c) \o SecondField => sRows = <<<<c, <<"b">>>>>>
            /\ (sText = Quoted(c) /\ c = <<>>) => sRows = <<>>

\* the documented example has been parsed to its content
C14_Witness ==
    /\ Parsed
    /\ sText = Quoted(ExContent)
    /\ sRows = <<<<ExContent>>>>

\* the sheet reader has returned the stats of a sheet with every column and
\* a full data row
SheetRead ==
    /\ sMode = "cells"
    /\ sPc = "done"
    /\ sRows[1] = HeaderFull
    /\ Len(sRows[2]) = Len(HeaderFull)

\* the value of a numeric cell by the rule of the export: null when the cell,
\* after a trailing % of a percentage column is removed, is empty or is not
\* the text of a finite number, and the number otherwise
ExpectedNumber(cell, percentage) ==
    LET t == IF percentage /\ cell # <<>> /\ cell[Len(cell)] = "%"
             THEN SubSeq(cell, 1, Len(cell) - 1) ELSE cell
    IN  IF t # <<>> /\ ToNumber(t).tag = "number" THEN ToNumber(t) ELSE NullNumber

\* C15: the parsed value of a cell of a numeric column is null exactly when
\* the cell is empty or not a number, and a cell that reports zero gives 0.
C15_NullIffNotANumber ==
    SheetRead =>
        \A sku \in Keys(sSheet) :
            LET row == sRows[2]
                st  == sSheet[sku]
            IN  /\ st.days_in_stock_24m = ExpectedNumber(row[2], FALSE)
                /\ st.days_out_of_stock_24m = ExpectedNumber(row[3], FALSE)
                /\ st.inventory_units_sold_csv = ExpectedNumber(row[4], FALSE)
                /\ st.sell_through_rate_csv = ExpectedNumber(row[5], TRUE)
                /\ st.percent_inventory_sold_csv = ExpectedNumber(row[6], TRUE)

\* a REST handler has answered with a report
RestReported == rPc = "responded" /\ rResponses[1].body.ok

\* the units of the order lines fetched whose SKU normalises to the same key
\* as sku
RECURSIVE SoldNormalised(_, _, _)
SoldNormalised(orders, i, sku) ==
    IF i > Len(orders) THEN 0
    ELSE (IF normaliseSku(Str(orders[i].sku)) = normaliseSku(Str(sku))
          THEN orders[i].qty ELSE 0) + SoldNormalised(orders, i + 1, sku)

\* C16: the units sold that the report counts for a SKU are the units of all
\* sale events whose raw SKU normalises to the key of that SKU.
C16_SalesKeyedByNormalisedSku ==
    RestReported =>
        \A sku \in DOMAIN rResponses[1].body.items :
            rResponses[1].body.items[sku].total_sold = SoldNormalised(rOrders, 1, sku)

\* C17: in a run of the sell-through handler in which the store domain, the
\* token or the sheet URL is not set, no request is sent, to the platform or
\* to the sheet, and the answer is { ok: false, error }.
C17_ConfigFailsBeforeFetch ==
    (sMode = "handler" /\ sEnv # EnvNames) =>
        /\ sRequests = <<>>
        /\ sPc = "responded" => ~sResponses[1].body.ok

\* the inventory item of the row of a SKU: that of the last variant with it
RowItem(sku) ==
    LET last == CHOOSE i \in 1..Len(rVariants) :
                    /\ rVariants[i].sku = sku
                    /\ \A j \in (i + 1)..Len(rVariants) : rVariants[j].sku # sku
    IN  rVariants[last].item

\* C18: in a report of part_002 or part_004, the row of an item for which the
\* platform has no inventory_levels entry is all zero, whatever its sales.
C18_NoLevelsAllZero ==
    (RestReported /\ rStock = "nolevels") =>
        \A sku \in DOMAIN rResponses[1].body.items :
            RowItem(sku) = 1 => Counters(rResponses[1].body.items[sku]) = ZeroMetrics

(***************************************************************************)
(* The reference definition of the metrics: over the days of the window,   *)
(* for an availability series (a missing day counts as 0) and the units    *)
(* sold on each day.                                                       *)
(***************************************************************************)
ReferenceMetrics(series, soldOn) ==
    LET inStock == {d \in WindowDays : OrZero(series, d) > 0}
    IN  [days_in_stock       |-> Cardinality(inStock),
         stockout_days       |-> Cardinality(WindowDays \ inStock),
         sold_while_in_stock |-> SumSet(soldOn, inStock),
         total_sold          |-> SumSet(soldOn, WindowDays)]

\* the units of a sales index keyed by (day, sku), for one SKU
SoldOfIndex(index, sku) == [d \in WindowDays |-> OrZero(index, <<d, sku>>)]

\* part_002: the series and the index that the row of a SKU is computed from
Series002(sku) ==
    LET last == CHOOSE i \in 1..Len(mVariants) :
                    /\ mVariants[i].sku = sku
                    /\ \A j \in (i + 1)..Len(mVariants) : mVariants[j].sku # sku
        item == mVariants[last].item
    IN  IF item \in DOMAIN mInventory THEN mInventory[item] ELSE <<>>

\* inventory-report.js: the series that the row of a SKU is computed from
SeriesHistory(sku) ==
    LET item == ItemIdBySku(mVariants, 1, <<>>)[sku]
    IN  IF item \in DOMAIN mInventory THEN InvMap(mInventory[item], 1, <<>>) ELSE <<>>

\* C19, part_002: every row of calculateMetrics is the reference metrics of
\* its series and of the sales index.
C19_Matches002 ==
    (CatalogRowsReady /\ eMode = "adjust") =>
        \A sku \in DOMAIN mOut :
            Counters(mOut[sku]) = ReferenceMetrics(Series002(sku),
                            SoldOfIndex(OrdersByDateSku(mOrders, 1, <<>>), sku))

\* C19, inventory-report.js: every row of computeMetrics is the reference
\* metrics of its series and of the sales index.
C19_MatchesHistory ==
    (CatalogRowsReady /\ eMode = "history") =>
        \A sku \in DOMAIN mOut :
            Counters(mOut[sku]) = ReferenceMetrics(SeriesHistory(sku),
                            SoldOfIndex(SalesIndex(mOrders, 1,
                                            SkuByVariantId(mVariants, 1, <<>>), <<>>), sku))

\* C19, part_004: the row of calculateMetrics is the reference metrics of the
\* reconstructed series and of the sales of the SKU.
C19_Matches004 ==
    SnapshotRowReady =>
        eRow = ReferenceMetrics(eInventory, [d \in WindowDays |-> OrZero(eSales, d)])

\* C19: the calculators of the three reports match the reference definition
\* over the days of the window, a missing day counting as 0.
C19_MatchesReference ==
    /\ C19_MatchesHistory
    /\ C19_Matches002
    /\ C19_Matches004

(***************************************************************************)
(* Reference values of the order of a report run.                          *)
(***************************************************************************)
ReportDays == {d \in Days : Cutoff <= d}

\* inventory-report.js: request j got the last page of its connection
LastPageOf(j, fetcher, kinds) ==
    /\ hRequests[j].ok
    /\ hRequests[j].body = "data"
    /\ ~ServePage(NodesOf(fetcher, kinds), hRequests[j].arg, hFirst).hasNextPage

\* inventory-report.js: the catalog fetch completed before request k
CatalogCompleteBefore(k) ==
    \E j \in 1..(k - 1) :
        hRequests[j].to = "products" /\ LastPageOf(j, "fetchAllVariants", hCatalog)

\* inventory-report.js: the sales index of all the orders of the upstream
IndexOfAllOrders ==
    LET nodes == NodesOf("fetchOrders", hSales)
        all   == OrdersOfEdges([i \in 1..Len(nodes) |-> Edge(i, nodes[i])], 1, <<>>)
    IN  SalesIndex(all, 1, SkuByVariantId(hVariants, 1, <<>>), <<>>)

\* part_002 and part_004: request j got a page without a pointer to a next one
RestLastPageOf(j, records) ==
    /\ rRequests[j].ok
    /\ ~IncludesRelNext(RestPage(records, rRequests[j].arg, rLimit, rLinkInBody).link)

\* the ordering in a run of inventory-report.js
C20_OrderingReport ==
    /\ \A k \in 1..Len(hRequests) :
          hRequests[k].to = "history" =>
              /\ CatalogCompleteBefore(k)
              /\ \A j \in (k + 1)..Len(hRequests) : hRequests[j].to # "products"
    /\ hInventoryByItem # <<>> => CatalogCompleteBefore(Len(hRequests) + 1)
    /\ (hPc = "responded" /\ hResponses[1].body.ok) =>
          /\ \E j \in 1..Len(hRequests) :
                hRequests[j].to = "orders" /\ LastPageOf(j, "fetchOrders", hSales)
          /\ \A sku \in DOMAIN hResponses[1].body.items :
                hResponses[1].body.items[sku].total_sold =
                    SumSet([d \in ReportDays |-> OrZero(IndexOfAllOrders, <<d, sku>>)],
                           ReportDays)

\* the ordering in a run of part_002 or part_004
C20_OrderingRest ==
    /\ \A k \in 1..Len(rRequests) :
          rRequests[k].to \in SubFetches =>
              /\ \E j \in 1..(k - 1) :
                    /\ rRequests[j].to = "products"
                    /\ RestLastPageOf(j, RestProducts(rCatalog))
              /\ \A j \in (k + 1)..Len(rRequests) : rRequests[j].to # "products"
    /\ (rInvMapByItem # <<>> \/ rOutput # <<>>) =>
          \E j \in 1..Len(rRequests) :
              rRequests[j].to = "products" /\ RestLastPageOf(j, RestProducts(rCatalog))
    /\ rOutput # <<>> =>
          /\ \E j \in 1..Len(rRequests) :
                rRequests[j].to = "orders" /\ RestLastPageOf(j, RestOrders(rSales))
          /\ rPart = "part_002" =>
                \A sku \in DOMAIN rOutput :
                    rOutput[sku].total_sold =
                        SumSet([d \in ReportDays |->
                                   OrZero(OrdersByDateSku(rOrders, 1, <<>>), <<d, sku>>)],
                               ReportDays)

\* C20: in a report run no per-item sub-fetch or reconstruction starts
\* before the catalog fetch has completed, and the metrics of no SKU are
\* computed before the orders fetch has completed and every sale event is in
\* the sales index.
C20_Ordering ==
    /\ C20_OrderingReport
    /\ C20_OrderingRest

\* a report of inventory-report.js after two pages of products, a history
\* sub-fetch and two pages of orders, with units sold in a row
C20_Witness ==
    /\ hPc = "responded"
    /\ hResponses[1].body.ok
    /\ Cardinality({k \in 1..Len(hRequests) : hRequests[k].to = "products"}) >= 2
    /\ Cardinality({k \in 1..Len(hRequests) : hRequests[k].to = "orders"}) >= 2
    /\ \E k \in 1..Len(hRequests) : hRequests[k].to = "history"
    /\ \E sku \in DOMAIN hResponses[1].body.items :
          hResponses[1].body.items[sku].total_sold > 0


(***************************************************************************)
(* inventory-report.js, the handler: the history sub-fetches, task by     *)
(* task.  batch.map(async (id) => ...) calls every task of the batch at    *)
(* once, and each task runs up to its request (the first await of          *)
(* shopifyGraphQL); the responses then arrive in any order, and each task  *)
(* assigns inventoryByItem[id] when its own response has arrived.  The     *)
(* loop goes on when Promise.all has seen every task of the batch finish.  *)
(* A task is known by its position in ids.                                 *)
(***************************************************************************)
\* the catalog: n variants, each with its own inventory item, and possibly
\* one more variant that shares the item of the first
BatchCatalog(n, shared) ==
    LET own == [i \in 1..n |-> Variant(i, <<"X">>, i)]
    IN  IF shared /\ n > 0 THEN Append(own, Variant(n + 1, <<"X">>, 1)) ELSE own

BatchCatalogs == {BatchCatalog(n, shared) : n \in 0..MaxItems, shared \in BOOLEAN}

\* the history of every item
BatchHistory ==
    <<HistoryNode(Cutoff, 1, 0), HistoryNode(Cutoff, 2, 2), HistoryNode(MaxDay, 1, 0)>>

\* the items whose history the upstream refuses: none, or the first and the last
FailingItems == {{}, {1, MaxItems}}

\* the response to the history request of an item
HistoryResponseOf(id, failing) ==
    CHOOSE response \in HistoryResponses(BatchHistory) : response.ok = (id \notin failing)

BatchInit ==
    /\ SkuIdle
    /\ EngIdle
    /\ FetchIdle
    /\ RepIdle
    /\ RestIdle
    /\ SellIdle
    /\ LinkIdle
    /\ RunIdle
    /\ bPc = "start"
    /\ bVariants \in BatchCatalogs
    /\ bFailing \in FailingItems
    /\ bAt = 0
    /\ bInFlight = {}
    /\ bInventoryByItem = <<>>
    /\ bWrites = <<>>
    /\ bRequests = <<>>

\* the loop test and, when it holds, batch.map(...): every request of the
\* batch is sent
StartBatch(ids, i) ==
    IF i < Len(ids)
    THEN LET batch == Batch(ids, i)
         IN  /\ bPc' = "awaiting"
             /\ bInFlight' = (i + 1)..(i + Len(batch))
             /\ bRequests' = bRequests \o batch
    ELSE /\ bPc' = "done"
         /\ bInFlight' = {}
         /\ UNCHANGED bRequests

\* const ids = [...]; for (let i = 0; i < ids.length; ...)
BatchLoop ==
    /\ bPc = "start"
    /\ StartBatch(Ids(bVariants, 1, <<>>), 0)
    /\ UNCHANGED <<bVariants, bFailing, bAt, bInventoryByItem, bWrites,
                   skuVars, engVars, fetchVars, repVars, restVars, sellVars,
                   linkVars, runVars>>

\* the response of one task arrives: try { inventoryByItem[id] = await ... }
\* catch (err) { inventoryByItem[id] = [] }
TaskSettles ==
    /\ bPc = "awaiting"
    /\ \E k \in bInFlight :
          LET id == Ids(bVariants, 1, <<>>)[k]
              r  == shopifyGraphQL(HistoryResponseOf(id, bFailing))
          IN  /\ bInventoryByItem' =
                     Put(bInventoryByItem, id,
                         IF r.threw THEN <<>>
                         ELSE fetchInventoryDailyForItem(r.data))
              /\ bWrites' = Put(bWrites, id, OrZero(bWrites, id) + 1)
              /\ bInFlight' = bInFlight \ {k}
    /\ UNCHANGED <<bPc, bVariants, bFailing, bAt, bRequests,
                   skuVars, engVars, fetchVars, repVars, restVars, sellVars,
                   linkVars, runVars>>

\* await Promise.all(...) returns: i += 10, and the loop test again
BatchJoins ==
    /\ bPc = "awaiting"
    /\ bInFlight = {}
    /\ bAt' = bAt + BatchWidth
    /\ StartBatch(Ids(bVariants, 1, <<>>), bAt + BatchWidth)
    /\ UNCHANGED <<bVariants, bFailing, bInventoryByItem, bWrites,
                   skuVars, engVars, fetchVars, repVars, restVars, sellVars,
                   linkVars, runVars>>

BatchNext ==
    \/ BatchLoop
    \/ TaskSettles
    \/ BatchJoins

SpecBatch == BatchInit /\ [][BatchNext]_vars

\* the item ids of the catalog, each once
DistinctItems == {bVariants[i].item : i \in 1..Len(bVariants)} \ {0}

\* the task at position k has been started and has assigned its result
Settled(k) == k <= Len(bRequests) /\ k \notin bInFlight

\* the first position of the batch that holds position k
BatchOf(k) == ((k - 1) \div BatchWidth) * BatchWidth

(***************************************************************************)
(* C21: the history sub-fetches run in batches of at most 10.  At every    *)
(* moment at most 10 sub-fetches are in flight; a sub-fetch that has been  *)
(* sent belongs to a batch all of whose predecessors have settled; no key  *)
(* of inventoryByItem is assigned twice; and when the last batch has       *)
(* settled inventoryByItem has exactly one entry for every distinct item   *)
(* id, whatever the order of the completions.                              *)
(***************************************************************************)
C21_BatchedSubFetches ==
    /\ Cardinality(bInFlight) <= BatchWidth
    /\ \A k \in 1..Len(bRequests) :
          \A j \in 1..BatchOf(k) : Settled(j)
    /\ \A id \in DOMAIN bWrites : bWrites[id] <= 1
    /\ bPc = "done" =>
          /\ bInFlight = {}
          /\ DOMAIN bInventoryByItem = DistinctItems
          /\ \A id \in DistinctItems : bWrites[id] = 1

\* two batches have run for a catalog in which two variants share an item,
\* the first of them with 10 sub-fetches, one sub-fetch failed and one not
C21_Witness ==
    /\ bPc = "done"
    /\ Len(bRequests) > BatchWidth
    /\ Len(bVariants) > Cardinality(DistinctItems)
    /\ bInventoryByItem[1] = <<>>
    /\ bInventoryByItem[2] # <<>>
    /\ bInventoryByItem[MaxItems] = <<>>


(***************************************************************************)
(* The link-paging fetchers of parts 002 and 004, one run of one fetcher   *)
(* against an upstream that serves the collection in pages.  The upstream  *)
(* describes the neighbours of a page by a previous pointer followed by a  *)
(* next pointer, each with its own page_info token; the token of a page is *)
(* the index of its first record.                                          *)
(***************************************************************************)
LinkFetchers == {"fetchAllVariants", "fetchVariants", "fetchAdjustments", "fetchOrders"}

AdjustmentKinds == {"in", "out"}

\* record i of GET inventory_items/{id}/inventory_levels/adjustments
AdjustmentRecord(i, kind) ==
    [performed_at |-> CreatedAt(i), quantity |-> IF kind = "in" THEN 2 ELSE -1]

LinkKindsOf(fetcher) ==
    CASE fetcher \in {"fetchAllVariants", "fetchVariants"} -> RestProductKinds
      [] fetcher = "fetchAdjustments" -> AdjustmentKinds
      [] fetcher = "fetchOrders" -> RestOrderKinds

LinkRecordsOf(fetcher, kinds) ==
    CASE fetcher \in {"fetchAllVariants", "fetchVariants"} -> RestProducts(kinds)
      [] fetcher = "fetchAdjustments" ->
             [i \in 1..Len(kinds) |-> AdjustmentRecord(i, kinds[i])]
      [] fetcher = "fetchOrders" -> RestOrders(kinds)

\* part_002, one turn of the second loop of fetchAdjustments:
\* res.headers?.link || ""
fetchAdjustmentsStep(pageInfo, adjustments, res) ==
    LET out == adjustments \o AdjustmentsOf(res)
    IN  IF ~IncludesRelNext(res.link)
        THEN [pc |-> "returned", pageInfo |-> pageInfo, out |-> out]
        ELSE [pc |-> "loop", pageInfo |-> MatchPageInfo(res.link), out |-> out]

LinkStep(fetcher, pageInfo, out, json) ==
    CASE fetcher = "fetchAllVariants" -> fetchAllVariants002Step(pageInfo, out, json)
      [] fetcher = "fetchVariants" -> fetchVariants004Step(pageInfo, out, json)
      [] fetcher = "fetchAdjustments" -> fetchAdjustmentsStep(pageInfo, out, json)
      [] fetcher = "fetchOrders" -> fetchOrdersRestStep(pageInfo, out, json)

LinkInit ==
    /\ SkuIdle
    /\ EngIdle
    /\ FetchIdle
    /\ RepIdle
    /\ RestIdle
    /\ SellIdle
    /\ BatchIdle
    /\ RunIdle
    /\ lPc = "loop"
    /\ lFetcher \in LinkFetchers
    /\ lRecords \in SeqsUpTo(LinkKindsOf(lFetcher), MaxLinkRecords)
    /\ lLimit \in 1..MaxFirst
    /\ lLinkInBody \in BOOLEAN
    /\ lPageInfo = 0
    /\ lRequests = <<>>
    /\ lOut = <<>>

\* one turn of the loop of a fetcher: the request, its response, and the
\* code up to the next request or to the return
LinkTurn(fetcher) ==
    /\ lPc = "loop"
    /\ lFetcher = fetcher
    /\ Len(lRequests) < MaxLinkRequests
    /\ \E response \in RestResponses(RestPage(LinkRecordsOf(lFetcher, lRecords),
                                              lPageInfo, lLimit, lLinkInBody)) :
          LET r  == shopifyGET(IF fetcher = "fetchVariants" THEN "part_004"
                               ELSE "part_002", response)
              st == LinkStep(fetcher, lPageInfo, lOut, r.json)
          IN  /\ lRequests' = Append(lRequests, [arg |-> lPageInfo, ok |-> response.ok])
              /\ IF r.threw
                 THEN /\ lPc' = "threw"
                      /\ UNCHANGED <<lPageInfo, lOut>>
                 ELSE /\ lPc' = st.pc
                      /\ lPageInfo' = st.pageInfo
                      /\ lOut' = st.out
    /\ UNCHANGED <<lFetcher, lRecords, lLimit, lLinkInBody,
                   skuVars, engVars, fetchVars, repVars, restVars, sellVars,
                   batchVars, runVars>>

LinkVariants002Page == LinkTurn("fetchAllVariants")

LinkVariants004Page == LinkTurn("fetchVariants")

LinkAdjustmentsPage == LinkTurn("fetchAdjustments")

LinkOrdersPage == LinkTurn("fetchOrders")

LinkNext ==
    \/ LinkVariants002Page
    \/ LinkVariants004Page
    \/ LinkAdjustmentsPage
    \/ LinkOrdersPage

SpecLink == LinkInit /\ [][LinkNext]_vars

\* the pages of the collection
LinkPageCount ==
    IF lRecords = <<>> THEN 1 ELSE (Len(lRecords) + lLimit - 1) \div lLimit

\* the pointers that the upstream sends with the page of a token, whether
\* or not the fetcher can see them
LinkOfPage(pageInfo) ==
    RestPage(LinkRecordsOf(lFetcher, lRecords), pageInfo, lLimit, TRUE).link

\* what reading the whole collection as one page gives
LinkAllRecordsRead ==
    LinkStep(lFetcher, 0,
             <<>>,
             [records |-> LinkRecordsOf(lFetcher, lRecords), link |-> Link(1, 0)]).out

(***************************************************************************)
(* C22: a link-paging fetcher follows the next pointers.  A request that   *)
(* follows a page with a next pointer carries the page_info of that        *)
(* pointer, also when a previous pointer precedes it; a page without a     *)
(* next pointer ends the fetch without error, with the records collected;  *)
(* so a collection of N pages takes exactly N requests, no page is         *)
(* requested twice, and the fetch ends.                                    *)
(***************************************************************************)
C22_LinkPaging ==
    lFetcher \in LinkFetchers =>
        /\ \A k \in 1..(Len(lRequests) - 1) :
              /\ IncludesRelNext(LinkOfPage(lRequests[k].arg))
              /\ lRequests[k + 1].arg = LinkOfPage(lRequests[k].arg).next
        /\ \A j, k \in 1..Len(lRequests) : j # k => lRequests[j].arg # lRequests[k].arg
        /\ Len(lRequests) <= LinkPageCount
        /\ lPc = "threw" => ~lRequests[Len(lRequests)].ok
        /\ lPc = "returned" =>
              /\ Len(lRequests) = LinkPageCount
              /\ lOut = LinkAllRecordsRead

\* the parts of C22 taken one by one, for a collection whose pages carry
\* their pointers in the body the fetcher reads
C22_FollowsNextPointer ==
    (lFetcher \in LinkFetchers /\ lLinkInBody) =>
        \A k \in 1..(Len(lRequests) - 1) :
            lRequests[k + 1].arg = LinkOfPage(lRequests[k].arg).next

\* a fetch that was refused nothing does not end in an error
C22_NoNextReturns ==
    lFetcher \in LinkFetchers =>
        (lPc = "threw" => ~lRequests[Len(lRequests)].ok)

\* a fetch that returned has read every page
C22_ReturnsWholeCollection ==
    lFetcher \in LinkFetchers =>
        (lPc = "returned" => lOut = LinkAllRecordsRead)


(***************************************************************************)
(* Reference reading of a text without quotes: the text is cut into lines  *)
(* at every \r\n, \n and \r (a \r\n pair is one cut), the empty lines are  *)
(* dropped, and every other line is cut into fields at its commas.         *)
(***************************************************************************)
RECURSIVE CutLines(_, _, _, _)
CutLines(text, i, line, lines) ==
    IF i > Len(text) THEN Append(lines, line)
    ELSE IF text[i] = "\r" /\ CharAt(text, i + 1) = "\n"
    THEN CutLines(text, i + 2, <<>>, Append(lines, line))
    ELSE IF text[i] \in {"\r", "\n"}
    THEN CutLines(text, i + 1, <<>>, Append(lines, line))
    ELSE CutLines(text, i + 1, Append(line, text[i]), lines)

RECURSIVE CutFields(_, _, _, _)
CutFields(line, i, field, fields) ==
    IF i > Len(line) THEN Append(fields, field)
    ELSE IF line[i] = ","
    THEN CutFields(line, i + 1, <<>>, Append(fields, field))
    ELSE CutFields(line, i + 1, Append(field, line[i]), fields)

RECURSIVE RowsOfLines(_, _, _)
RowsOfLines(lines, i, rows) ==
    IF i > Len(lines) THEN rows
    ELSE RowsOfLines(lines, i + 1,
             IF lines[i] = <<>> THEN rows
             ELSE Append(rows, CutFields(lines[i], 1, <<>>, <<>>)))

ReferenceRows(text) == RowsOfLines(CutLines(text, 1, <<>>, <<>>), 1, <<>>)

Unquoted(text) == Quote \notin Range(text)

(***************************************************************************)
(* C23: outside quotes each of \r\n, \n and \r ends exactly one row, a     *)
(* \r\n pair gives no extra or empty row, no field holds a line break,     *)
(* blank lines give no row, and a last row without a line break after it   *)
(* is returned too; a table reads the same whichever of the three line     *)
(* endings it is written with.                                             *)
(***************************************************************************)
C23_LineEndings ==
    Parsed =>
        /\ Unquoted(sText) =>
              /\ sRows = ReferenceRows(sText)
              /\ \A r \in 1..Len(sRows) : \A f \in 1..Len(sRows[r]) :
                    Range(sRows[r][f]) \cap {"\r", "\n"} = {}
              /\ \A r \in 1..Len(sRows) : sRows[r] # <<<<>>>>
        /\ \A t \in Tables, eol \in LineEndings, blank \in BOOLEAN, trailing \in BOOLEAN :
              sText = WriteTable(t, eol, blank, trailing) => sRows = t

\* a table of two rows written with \r\n, with a blank line between the rows
\* and no line ending after the last row, has been read
C23_Witness ==
    /\ Parsed
    /\ sText = WriteTable(<<<<<<"a">>, <<"b">>>>, <<<<"a">>>>>>, <<"\r", "\n">>, TRUE, FALSE)
    /\ sRows = <<<<<<"a">>, <<"b">>>>, <<<<"a">>>>>>
    /\ \E eol \in LineEndings \ {<<"\r", "\n">>} :
          parseCsv(WriteTable(sRows, eol, TRUE, FALSE)) = sRows


(***************************************************************************)
(* The metrics of a report run, SKU by SKU: what each handler does with    *)
(* the catalog and the orders that its fetches return.  For                *)
(* inventory-report.js the run starts with the history sub-fetches of the  *)
(* items; the orders are held from the start, as they do not depend on     *)
(* them.                                                                   *)
(* inventory-report.js (computeMetrics) and part_002 (calculateMetrics)    *)
(* aggregate the sales into an index and then loop over the SKUs; part_004 *)
(* loops over the variants at once and aggregates the sales of the         *)
(* variant's SKU inside the loop.                                          *)
(***************************************************************************)
RunModes == {"history", "part_002", "part_004"}

\* the availability of the first item on every day of the calendar
RunAvailMaps == [Days -> AvailVals]

\* the history events of one day of an item, as the availableAfterAdjustment
\* of each in arrival order: none, one, or two that end with or without stock
RunDayEvents == {<<>>, <<2>>, <<0, 2>>, <<2, 0>>}

\* the history that has the given events on each day
RECURSIVE HistoryOfDays(_, _)
HistoryOfDays(eventsOn, d) ==
    IF d > MaxDay THEN <<>>
    ELSE [t \in 1..Len(eventsOn[d]) |-> HistoryNode(d, t, eventsOn[d][t])]
         \o HistoryOfDays(eventsOn, d + 1)

RunHistories == {HistoryOfDays(eventsOn, 1) : eventsOn \in [Days -> RunDayEvents]}

\* the history of the second item: one unit available after an event of
\* every day
OtherHistory == HistoryOfDays([d \in Days |-> <<1>>], 1)

\* the order lines of a run: one unit each
RunSaleSeqs == {q \in SaleEventSeqs : \A i \in 1..Len(q) : q[i].qty = 1}

\* a key that is an array index: the decimal text, without leading zero, of
\* an integer from 0 to 2^32 - 2
IsArrayIndex(k) ==
    /\ k # <<>>
    /\ \A i \in 1..Len(k) : k[i] \in Digits
    /\ Len(k) > 1 => k[1] # "0"
    /\ \/ Len(k) < 10
       \/ /\ Len(k) = 10
          /\ LET top == <<"4", "2", "9", "4", "9", "6", "7", "2", "9", "4">>
             IN  \/ k = top
                 \/ \E i \in 1..10 :
                       /\ \A j \in 1..(i - 1) : k[j] = top[j]
                       /\ DigitOf(k[i]) < DigitOf(top[i])

\* a < b for two array indices: the shorter text, or the text that is
\* smaller at the first digit in which they differ
IndexLess(a, b) ==
    \/ Len(a) < Len(b)
    \/ /\ Len(a) = Len(b)
       /\ \E i \in 1..Len(a) :
             /\ \A j \in 1..(i - 1) : a[j] = b[j]
             /\ DigitOf(a[i]) < DigitOf(b[i])

\* the array indices of a set of keys in ascending order
RECURSIVE IndicesInOrder(_)
IndicesInOrder(keys) ==
    IF keys = {} THEN <<>>
    ELSE LET least == CHOOSE k \in keys : \A x \in keys \ {k} : IndexLess(k, x)
         IN  <<least>> \o IndicesInOrder(keys \ {least})

\* the keys that itemIdBySku owns, in the order of their first assignment
RECURSIVE SkusInserted(_, _, _)
SkusInserted(variants, i, skus) ==
    IF i > Len(variants) THEN skus
    ELSE LET v   == variants[i]
             sku == Trim(v.sku)
         IN  SkusInserted(variants, i + 1,
                 IF sku = <<>> \/ v.item = 0 \/ sku = ProtoKey \/ sku \in Range(skus)
                 THEN skus
                 ELSE Append(skus, sku))

\* Object.entries(itemIdBySku): the own keys, those that are array indices
\* first, in ascending order, then the others in the order of assignment
SkusInOrder(variants) ==
    LET inserted == SkusInserted(variants, 1, <<>>)
        IsOther(k) == ~IsArrayIndex(k)
    IN  IndicesInOrder({k \in Range(inserted) : IsArrayIndex(k)})
            \o SelectSeq(inserted, IsOther)

\* a catalog of one item more than a batch of history requests holds, all
\* variants of one SKU
WideCatalog == [i \in 1..(BatchWidth + 1) |-> Variant(i, <<"A">>, i)]

RunInit ==
    /\ SkuIdle
    /\ EngIdle
    /\ FetchIdle
    /\ RepIdle
    /\ RestIdle
    /\ SellIdle
    /\ BatchIdle
    /\ LinkIdle
    /\ kMode \in RunModes
    /\ kVariants \in RunCatalogs \cup (IF kMode = "history" THEN {WideCatalog} ELSE {})
    /\ kPc = CASE kMode = "history"  ->
                    IF Ids(kVariants, 1, <<>>) = <<>> THEN "index" ELSE "history"
                [] kMode = "part_002" -> "index"
                [] kMode = "part_004" ->
                    IF kVariants = <<>> THEN "done" ELSE "skus"
    /\ IF kMode = "history"
       THEN /\ kHistory \in IF kVariants = WideCatalog THEN {<<>>} ELSE RunHistories
            /\ kFailed \in BOOLEAN
            /\ kInventory = <<>>
       ELSE /\ kHistory = <<>>
            /\ kFailed = FALSE
            /\ \E a \in RunAvailMaps, b \in OtherAvailMaps :
                  kInventory = (1 :> a) @@ (2 :> b)
    /\ \E evs \in IF kVariants = WideCatalog THEN {<<>>} ELSE RunSaleSeqs :
          kOrders = IF kMode = "history"
                    THEN [i \in 1..Len(evs) |-> OrderOf(evs[i])]
                    ELSE LinesOf(evs, 1, kVariants, <<>>)
    /\ kIndex = <<>>
    /\ kIndexAtFirst = <<>>
    /\ kBuilds = 0
    /\ kAt = 0
    /\ kOutput = <<>>

runInputs == <<kMode, kVariants, kHistory, kFailed, kOrders>>

\* the ids whose requests are in flight: those of the batch that the loop
\* is at, which is the first with a task that has not settled, without the
\* ids whose tasks have settled
HistoryInFlight(ids, inventoryByItem) ==
    Range(Batch(ids, BatchWidth * (Cardinality(DOMAIN inventoryByItem) \div BatchWidth)))
        \ DOMAIN inventoryByItem

\* inventory-report.js 365-381: the history sub-fetches of the items of the
\* catalog go in batches of ten; the response of one of the batch in flight
\* arrives and its task assigns inventoryByItem[id], [] when the request
\* failed; when every task of the batch has settled the requests of the
\* next batch are sent, and after the last batch the index is built
HistoryArrives ==
    /\ kPc = "history"
    /\ \E id \in HistoryInFlight(Ids(kVariants, 1, <<>>), kInventory) :
          LET response == IF id = 1 /\ kFailed
                          THEN [ok |-> FALSE, body |-> "errors", data |-> <<>>]
                          ELSE [ok |-> TRUE, body |-> "data",
                                data |-> IF id = 1 THEN kHistory ELSE OtherHistory]
              r        == shopifyGraphQL(response)
          IN  /\ kInventory' = Put(kInventory, id,
                                   IF r.threw THEN <<>>
                                   ELSE fetchInventoryDailyForItem(r.data))
              /\ kPc' = IF Range(Ids(kVariants, 1, <<>>)) = DOMAIN kInventory \cup {id}
                        THEN "index" ELSE "history"
    /\ UNCHANGED <<runInputs, kIndex, kIndexAtFirst, kBuilds, kAt, kOutput,
                   skuVars, engVars, fetchVars, repVars, restVars, sellVars,
                   batchVars, linkVars>>

\* inventory-report.js 250-287 and part_002 231-239: the sales index; the
\* loop that follows has no turn when there is nothing to loop over
BuildIndex ==
    /\ kPc = "index"
    /\ kIndex' = IF kMode = "history"
                 THEN SalesIndex(kOrders, 1, SkuByVariantId(kVariants, 1, <<>>), <<>>)
                 ELSE OrdersByDateSku(kOrders, 1, <<>>)
    /\ kBuilds' = kBuilds + 1
    /\ kPc' = IF (IF kMode = "history" THEN SkusInOrder(kVariants) ELSE kVariants) = <<>>
              THEN "done" ELSE "skus"
    /\ UNCHANGED <<runInputs, kInventory, kIndexAtFirst, kAt, kOutput,
                   skuVars, engVars, fetchVars, repVars, restVars, sellVars,
                   batchVars, linkVars>>

\* inventory-report.js 292-331: one turn of the loop over the entries of
\* itemIdBySku
MetricsOfSku ==
    /\ kPc = "skus" /\ kMode = "history"
    /\ LET skus   == SkusInOrder(kVariants)
           sku    == skus[kAt + 1]
           item   == ItemIdBySku(kVariants, 1, <<>>)[sku]
           invRaw == IF item \in DOMAIN kInventory THEN kInventory[item] ELSE <<>>
           dates  == DatesInPeriod(ReportStart, ReportEnd)
       IN  /\ kOutput' = Assign(kOutput, sku,
                                RowOf(sku, ComputeOverDates(dates, 1,
                                               InvMap(invRaw, 1, <<>>),
                                               kIndex, sku, ZeroMetrics)))
           /\ kPc' = IF kAt + 1 = Len(skus) THEN "done" ELSE "skus"
    /\ kIndexAtFirst' = IF kAt = 0 THEN kIndex ELSE kIndexAtFirst
    /\ kAt' = kAt + 1
    /\ UNCHANGED <<runInputs, kInventory, kIndex, kBuilds,
                   skuVars, engVars, fetchVars, repVars, restVars, sellVars,
                   batchVars, linkVars>>

\* part_002 241-271: one turn of the loop over the variants
MetricsOfVariant002 ==
    /\ kPc = "skus" /\ kMode = "part_002"
    /\ LET v        == kVariants[kAt + 1]
           invDaily == IF v.item \in DOMAIN kInventory THEN kInventory[v.item] ELSE <<>>
           days     == enumerateDays(NewDate(ReportStart), NewDate(ReportEnd))
       IN  kOutput' = Assign(kOutput, v.sku,
                             Row002(v.sku,
                                    MetricsOverDays002(days, 1, invDaily, kIndex, v.sku,
                                                       ZeroMetrics),
                                    invDaily))
    /\ kPc' = IF kAt + 1 = Len(kVariants) THEN "done" ELSE "skus"
    /\ kIndexAtFirst' = IF kAt = 0 THEN kIndex ELSE kIndexAtFirst
    /\ kAt' = kAt + 1
    /\ UNCHANGED <<runInputs, kInventory, kIndex, kBuilds,
                   skuVars, engVars, fetchVars, repVars, restVars, sellVars,
                   batchVars, linkVars>>

\* part_004 247-257: a turn of the loop over the variants up to its await:
\* salesMap is filled from the orders, and the level of the item is asked for
SalesMapOfVariant004 ==
    /\ kPc = "skus" /\ kMode = "part_004"
    /\ LET salesMap == SalesMapOf(kOrders, 1, kVariants[kAt + 1].sku, <<>>)
       IN  /\ kIndex' = salesMap
           /\ kIndexAtFirst' = IF kAt = 0 THEN salesMap ELSE kIndexAtFirst
    /\ kBuilds' = kBuilds + 1
    /\ kPc' = "level"
    /\ UNCHANGED <<runInputs, kInventory, kAt, kOutput,
                   skuVars, engVars, fetchVars, repVars, restVars, sellVars,
                   batchVars, linkVars>>

\* part_004 257-268: the level arrives, which is the availability of the
\* item on the last day, and the turn ends with the row of the variant
MetricsOfVariant004 ==
    /\ kPc = "level" /\ kMode = "part_004"
    /\ LET v        == kVariants[kAt + 1]
           finalQty == fetchCurrentLevel(
                           [inventory_levels |->
                               <<[location_id |-> 1,
                                  available   |-> kInventory[v.item][MaxDay]]>>])
           inventory == reconstructDailyInventory(ReportStart, ReportEnd, finalQty,
                                                  kIndex)
       IN  kOutput' = Assign(kOutput, v.sku,
                             RowOf(v.sku, calculateMetrics004(inventory, kIndex)))
    /\ kPc' = IF kAt + 1 = Len(kVariants) THEN "done" ELSE "skus"
    /\ kAt' = kAt + 1
    /\ UNCHANGED <<runInputs, kInventory, kIndex, kIndexAtFirst, kBuilds,
                   skuVars, engVars, fetchVars, repVars, restVars, sellVars,
                   batchVars, linkVars>>

RunNext ==
    \/ HistoryArrives
    \/ BuildIndex
    \/ MetricsOfSku
    \/ MetricsOfVariant002
    \/ SalesMapOfVariant004
    \/ MetricsOfVariant004

SpecRun == RunInit /\ [][RunNext]_vars

\* the index is built once and is the same before the first and after the
\* last SKU, in the runs of the given handlers
IndexBuiltOnce(modes) ==
    (kMode \in modes /\ kAt >= 1) =>
        /\ kBuilds = 1
        /\ kIndex = kIndexAtFirst

(***************************************************************************)
(* C24: the sales index is built exactly once per report run and then only *)
(* read: the metrics of a SKU neither rebuild nor change it, so it is the  *)
(* same before the first and after the last SKU's metrics; in every        *)
(* handler, the snapshot-based one included.                               *)
(***************************************************************************)
C24_IndexBuiltOnce == IndexBuiltOnce(RunModes)

\* C24 for inventory-report.js and part_002 alone
C24_IndexBuiltOnceIndexed == IndexBuiltOnce({"history", "part_002"})

\* C24 as a frame condition: a turn of the loop over the SKUs leaves the
\* index, the count of its builds and the availability series as they are
C24_LoopReadsOnly ==
    [][kPc = "skus" => (kIndex' = kIndex /\ kBuilds' = kBuilds
                        /\ kInventory' = kInventory)]_vars


(***************************************************************************)
(* Reference for the rows of a catalog in which variants share a SKU.      *)
(***************************************************************************)
RunDone == kMode \in RunModes /\ kPc = "done"

\* the SKU of a variant as the handler keys it: trimmed in inventory-report.js
KeyOf(v) == IF kMode = "history" THEN Trim(v.sku) ELSE v.sku

\* the last variant of the catalog that carries the SKU
LastVariantOf(sku) ==
    LET at == {i \in 1..Len(kVariants) : KeyOf(kVariants[i]) = sku}
    IN  kVariants[CHOOSE i \in at : \A j \in at : j <= i]

\* inventory-report.js: the units of the order lines of the given variants
RECURSIVE UnitsOfVariants(_, _, _)
UnitsOfVariants(orders, i, vids) ==
    IF i > Len(orders) THEN 0
    ELSE (IF orders[i].lineItems[1].variantId \in vids
          THEN orders[i].lineItems[1].quantity ELSE 0)
         + UnitsOfVariants(orders, i + 1, vids)

\* parts 002 and 004: the units of the order lines that carry the SKU
RECURSIVE UnitsOfSku(_, _, _)
UnitsOfSku(lines, i, sku) ==
    IF i > Len(lines) THEN 0
    ELSE (IF lines[i].sku = sku THEN lines[i].qty ELSE 0)
         + UnitsOfSku(lines, i + 1, sku)

\* the days of the window on which the item is available
DaysAvailable(item) ==
    LET series == IF kMode = "history" THEN InvMap(kInventory[item], 1, <<>>)
                  ELSE kInventory[item]
    IN  Cardinality({d \in Days : OrZero(series, d) > 0})

(***************************************************************************)
(* C25: when several variants carry the same SKU the report has one row    *)
(* for the SKU.  In inventory-report.js its availability is that of the    *)
(* item of the last such variant and its total_sold is the sum over the    *)
(* order lines of all such variants; in parts 002 and 004 the row is the   *)
(* one computed for the last such variant.                                 *)
(***************************************************************************)
C25_SharedSku ==
    RunDone =>
        /\ DOMAIN kOutput = {KeyOf(kVariants[i]) : i \in 1..Len(kVariants)}
        /\ \A sku \in DOMAIN kOutput :
              LET last == LastVariantOf(sku)
                  vids == {kVariants[i].id : i \in {j \in 1..Len(kVariants) :
                                                      KeyOf(kVariants[j]) = sku}}
              IN  CASE kMode = "history" ->
                         /\ kOutput[sku].days_in_stock = DaysAvailable(last.item)
                         /\ kOutput[sku].total_sold = UnitsOfVariants(kOrders, 1, vids)
                    [] kMode = "part_002" ->
                         /\ kOutput[sku].days_in_stock = DaysAvailable(last.item)
                         /\ kOutput[sku].total_sold = UnitsOfSku(kOrders, 1, sku)
                    [] kMode = "part_004" ->
                         kOutput[sku] =
                             Row004(last, kOrders,
                                    fetchCurrentLevel(
                                        [inventory_levels |->
                                            <<[location_id |-> 1,
                                               available |-> kInventory[last.item][MaxDay]]>>]))


(***************************************************************************)
(* Reference for the availability of the history-based report: the events  *)
(* that the sub-fetch of an item returned, and the days on which the last  *)
(* event of the day left stock.                                            *)
(***************************************************************************)
EventsOf(item) ==
    IF item = 1 THEN (IF kFailed THEN <<>> ELSE kHistory) ELSE OtherHistory

EventDates(events) == {events[i].occurredAt.day : i \in 1..Len(events)}

\* the last event of the day in arrival order
LastEventOn(events, d) ==
    LET at == {i \in 1..Len(events) : events[i].occurredAt.day = d}
    IN  events[CHOOSE i \in at : \A j \in at : j <= i]

InStockDays(events) ==
    {d \in EventDates(events) \cap Days :
        LastEventOn(events, d).availableAfterAdjustment > 0}

(***************************************************************************)
(* C26: in the history-based report a day is in stock only if a history    *)
(* event is dated that day and the last such event in arrival order left   *)
(* more than 0 available; every day without an event is a stockout day.    *)
(* So days_in_stock is at most the number of distinct event dates of the   *)
(* window, and 0 for an item with no history or with a failed sub-fetch.   *)
(***************************************************************************)
C26_NoCarryForward ==
    (RunDone /\ kMode = "history") =>
        \A sku \in DOMAIN kOutput :
            LET item   == LastVariantOf(sku).item
                events == EventsOf(item)
            IN  /\ kOutput[sku].days_in_stock = Cardinality(InStockDays(events))
                /\ kOutput[sku].stockout_days = MaxDay - Cardinality(InStockDays(events))
                /\ kOutput[sku].days_in_stock <= Cardinality(EventDates(events) \cap Days)
                /\ (events = <<>> \/ (item = 1 /\ kFailed)) =>
                       kOutput[sku].days_in_stock = 0

\* a report for an item with two events on the first day, the last of which
\* left stock, and no event on the last day: one day in stock, the day
\* without event a stockout day
C26_Witness ==
    /\ RunDone
    /\ kMode = "history"
    /\ ~kFailed
    /\ kHistory = <<HistoryNode(1, 1, 0), HistoryNode(1, 2, 2)>>
    /\ kVariants[1].item = 1
    /\ Trim(kVariants[1].sku) \in DOMAIN kOutput
    /\ kOutput[Trim(kVariants[1].sku)].days_in_stock = 1
    /\ kOutput[Trim(kVariants[1].sku)].stockout_days = MaxDay - 1
    /\ Trim(kVariants[2].sku) # Trim(kVariants[1].sku)

=============================================================================
